---------------------------- MODULE Spec2Model ----------------------------
(***************************************************************************)
(* State-machine model of the ARS / ICB on-chain programs.                 *)
(*                                                                         *)
(*   ars-protocol/programs/ars-core    (lib_complete.rs)   "core_*"        *)
(*   ars-protocol/programs/ars-reserve (lib.rs)            "reserve_*"     *)
(*   ars-protocol/programs/ars-token   (lib.rs)            "aru_*"         *)
(*   programs/icb-core                 (instructions/*.rs) "icb_*"         *)
(*   programs/ars-reserve              (instructions/*.rs) "vault_*"       *)
(*   programs/ars-token, icb-token     (instructions/*.rs) "icu_*"         *)
(*                                                                         *)
(* Every instruction is one atomic action (the reserve instructions are    *)
(* also given in two steps, around their external token transfer, for the  *)
(* properties of instructions in progress).  An instruction that returns   *)
(* Err leaves every account as it was (the runtime discards the writes of  *)
(* a failed transaction); the outcome of the most recent instruction is    *)
(* recorded in `last` (its name, its arguments, its error or "Ok").        *)
(* Instructions are modelled as invoked with well-formed accounts: signer  *)
(* and address constraints of the Accounts structs are taken as met,       *)
(* except where a handler compares the signer itself; constraints on       *)
(* program state (status, circuit breaker) and `init` of an account that   *)
(* already exists are modelled.                                            *)
(***************************************************************************)
EXTENDS Integers, Sequences, FiniteSets, TLC

(***************************************************************************)
(* Bounds of the model.                                                    *)
(***************************************************************************)
\* The clock starts here (Clock::get().unix_timestamp at deployment).
StartTime == 1700000000
\* The oracle specification lets the clock advance by this much in all.
OracleHorizon == 300
\* The most proposals created in one program in one behaviour.
MaxProposals == 1
\* ars-core tallies are explored up to this total stake on a proposal.
MaxTally == 202
\* The governance specification lets the clock advance by this much in all.
GovHorizon == 7200
\* The most successful slashes of one agent in one behaviour.
MaxSlashes == 1
\* The token specification lets the clock advance by this much in all.
TokenHorizon == 200
\* u64::MAX, scaled down so that sums and products stay within the integers
\* of the model checker; every u64 of the token programs, and every stake
\* of a quadratic vote, is at most this.
U64Max == 4095
\* f64::MANTISSA_DIGITS (53 of the 64 bits of a u64), scaled with U64Max:
\* the significant bits of a float.
F64Digits == 10
\* The magnitude of i32::MIN, scaled down so that repeated slashes reach
\* it.
I32MinMagnitude == 2048
\* i32::MIN: the least value of a reputation score.
I32Min == -I32MinMagnitude
\* The reserve specification lets the clock advance by this much in all.
ReserveHorizon == 3600
\* The breakpoints of AgentTier::from_stake (10^12, 10^13 and 10^14 lamports
\* in state.rs), scaled down in their order to fit the integers of the model
\* checker; the registration floor MIN_STAKE keeps its value.
SilverMinStake == 1000000000
GoldMinStake == 1500000000
PlatinumMinStake == 2000000000
\* The registry specification lets the clock advance by this much in all,
\* and slashes one agent at most this many times.
RegistryHorizon == 3600
MaxRegistrySlashes == 2
\* The proposal specification creates at most this many proposals in each
\* program and lets the clock advance by this much in all.
MaxCreated == 3
ProposalHorizon == 7200
\* The admin specification lets the clock advance by this much in all.
AdminHorizon == 259200
\* The most reserve instructions in progress at once, one inside the
\* external call of the other.
MaxDepth == 2
\* How far the recorded value of a vault may exceed its tokens.
MaxDrift == 2
\* The tokens a depositor owns, in the vault or outside it.
UserTokens == 2

(***************************************************************************)
(* Program constants.                                                      *)
(***************************************************************************)
MIN_STAKE == 100000000
DEFAULT_ILI_UPDATE_INTERVAL == 300
CONSENSUS_THRESHOLD == 3
MAX_PENDING_UPDATES == 10
SLASH_REPUTATION_PENALTY == 50
REPUTATION_FLOOR == -1000
MIN_TRIGGER_REPUTATION == 100
CIRCUIT_BREAKER_DELAY == 86400
ADMIN_TRANSFER_DELAY == 172800
MAX_VOTING_PERIOD == 604800
MIN_VOTING_PERIOD == 3600
MAX_PARAMS_LEN == 256
BPS_DENOMINATOR == 10000
U16_MAX == 65535
MIN_REBALANCE_INTERVAL == 3600
VHR_WARNING_THRESHOLD == 15000

(***************************************************************************)
(* Inputs.                                                                 *)
(***************************************************************************)
Agents == {"a1", "a2"}
Signers == {"admin", "a1"}
\* signers and new authorities of the admin transfer; clock steps that reach
\* one second before, and exactly, 48 hours.
AdminKeys == {"admin", "a1", "a2"}
AdminSteps == {86399, 86400}
IliValues == {100, 200, 9000}
RegisterStakes == {MIN_STAKE - 1, MIN_STAKE}
SlashAmounts == {1}
ParticipationIliValues == {100}
ReputationSlashAmounts == {0, 1}
RegistryStakes == {MIN_STAKE - 1, MIN_STAKE, SilverMinStake - 1, SilverMinStake,
                   GoldMinStake, PlatinumMinStake}
RegistrySlashAmounts == {0, 1, MIN_STAKE, SilverMinStake}
RegistrySteps == {3600}
OracleSteps == {300}
\* initialize / initialize_mint arguments of the token programs.
EpochDurations == {100}
CapBps == {200, 2500}
\* Mint.supply when initialize_mint runs.
InitialSupplies == {0, 8, 50}
TokenAmounts == {0, 1, 2, U64Max}
TokenSteps == {50}
\* burns of the whole cap of the idle token program's epoch, and beyond it.
AtomicityBurnAmounts == {20, U64Max}
\* initialize arguments of the reserve programs.
MinVhrs == {15000}
RebalanceThresholds == {10000}
ReserveAmounts == {0, 1, 3}
\* update_vhr arguments <<total_value_usd, liabilities_usd>>.
VhrUpdates == {<<8, 1>>, <<3, 2>>, <<1, 1>>}
ReserveSteps == {3600}
ReentryAmounts == {0, 1}
\* create_proposal arguments.
VotingPeriods == {0, 3600}
ParamsLens == {256, 257}
Durations == {3599, 3600}
\* voting periods around both ends of [1 hour, 7 days].
ProposalPeriods == {0, 3599, 3600, 604800, 604801}
ProposalSteps == {3600}
\* vote_on_proposal arguments.
CoreStakeAmounts == {101}
PowerStakeAmounts == {0, 300, 1024, 3968, U64Max}
IcbStakeAmounts == {0, 2500, 2501}
GovSteps == {3600}

VARIABLES
    now,              \* Clock::get().unix_timestamp
    last,             \* the most recent instruction: [op, err, arg]
    global_state,     \* ars-core GlobalState
    ili_oracle,       \* ars-core ILIOracle
    agent_registry,   \* ars-core AgentRegistry accounts, by agent
    proposals,        \* ars-core PolicyProposal accounts, by id
    transfer_initiated, \* (history) the latest successful initiate_admin_transfer
    mint_state,       \* ars-protocol ars-token MintState
    epoch_history,    \* ars-protocol ars-token EpochHistory accounts, by epoch
    aru_epoch_supply, \* (history) mint_state.total_supply when the epoch began
    token_state,      \* programs/ars-token TokenState
    mint_supply,      \* programs/ars-token: supply of the SPL Mint
    reserve_vault,         \* ars-protocol ars-reserve ReserveVault
    reserve_token_balance, \* ars-protocol ars-reserve: vault_token_account.amount
    vault,                 \* programs/ars-reserve ReserveVault
    vault_token_balance,   \* programs/ars-reserve: vault_token_account.amount
    in_flight,             \* reserve instructions inside their external call
    icb_global_state,      \* icb-core GlobalState
    icb_proposals,         \* icb-core PolicyProposal accounts, by id
    icb_vote_records,      \* icb-core VoteRecord accounts, by <<id, agent>>
    breaker_tripped_at     \* (history) when the icb-core breaker went active

coreVars == <<global_state, ili_oracle, agent_registry, proposals,
              transfer_initiated>>
aruVars == <<mint_state, epoch_history, aru_epoch_supply>>
icuVars == <<token_state, mint_supply>>
tokenVars == <<aruVars, icuVars>>
reserveBVars == <<reserve_vault, reserve_token_balance>>
reserveEVars == <<vault, vault_token_balance>>
reserveVars == <<reserveBVars, reserveEVars, in_flight>>
icbVars == <<icb_global_state, icb_proposals, icb_vote_records,
             breaker_tripped_at>>
vars == <<now, last, coreVars, tokenVars, reserveVars, icbVars>>

(***************************************************************************)
(* Helpers.                                                                *)
(***************************************************************************)
Ok == "Ok"

\* The outcome of an instruction that is inside its external call.
Pending == "Pending"

\* Option::None of an Option<Pubkey>.
None == "None"

\* values.sort_unstable(): insertion of each element into a sorted prefix.
RECURSIVE InsertSorted(_, _)
InsertSorted(x, s) ==
    IF s = <<>> THEN <<x>>
    ELSE IF x <= Head(s) THEN <<x>> \o s
    ELSE <<Head(s)>> \o InsertSorted(x, Tail(s))

RECURSIVE sort_unstable(_)
sort_unstable(s) == IF s = <<>> THEN <<>> ELSE InsertSorted(Head(s), sort_unstable(Tail(s)))

\* The 0-based index i of a Vec is position i + 1 of a sequence.
At(s, i) == s[i + 1]

\* submit_ili_update, lines 193-203: the median of the pending values.
MedianMutUpper(values) ==
    LET sorted == sort_unstable(values)
        n == Len(sorted)
    IN  At(sorted, n - 1)

MedianMutLower(values) ==
    LET sorted == sort_unstable(values)
    IN  At(sorted, 0)

Median(values) ==
    LET sorted == sort_unstable(values)
        n == Len(sorted)
    IN  IF n % 2 = 0
        THEN (At(sorted, n \div 2 - 1) + At(sorted, n \div 2)) \div 2
        ELSE At(sorted, n \div 2)

PendingValues(pending) == [i \in 1..Len(pending) |-> pending[i].ili_value]

(***************************************************************************)
(* ars-core (lib_complete.rs): initial state = after `initialize`.         *)
(***************************************************************************)
NoAgent == [registered |-> FALSE, agent_tier |-> "None",
            stake_amount |-> 0, reputation_score |-> 0,
            slashed_amount |-> 0, is_active |-> FALSE]

CoreInit ==
    /\ global_state = [authority |-> "admin",
                       pending_authority |-> None,
                       transfer_timelock |-> 0,
                       circuit_breaker_active |-> FALSE,
                       circuit_breaker_timelock |-> 0,
                       min_agent_consensus |-> CONSENSUS_THRESHOLD,
                       proposal_counter |-> 0]
    /\ ili_oracle = [current_ili |-> 0,
                     last_update |-> 0,
                     update_interval |-> DEFAULT_ILI_UPDATE_INTERVAL,
                     pending_updates |-> <<>>,
                     consensus_threshold |-> CONSENSUS_THRESHOLD]
    /\ agent_registry = [a \in Agents |-> NoAgent]
    /\ proposals = <<>>
    /\ transfer_initiated = [new_authority |-> None, at |-> 0]

\* The clock and the record of the last instruction after deployment; no
\* instruction is in progress.
ClockInit ==
    /\ now = StartTime
    /\ last = [op |-> "initialize", err |-> Ok, arg |-> <<>>]
    /\ in_flight = <<>>

\* The clock advances by d, up to `horizon` past StartTime.
Tick(d, horizon) ==
    /\ now + d <= StartTime + horizon
    /\ now' = now + d
    /\ last' = [op |-> "tick", err |-> Ok, arg |-> <<d>>]

(***************************************************************************)
(* ars-core: initiate_admin_transfer, execute_admin_transfer.              *)
(***************************************************************************)
initiate_admin_transfer_err(signer) ==
    IF ~(signer = global_state.authority) THEN "Unauthorized" ELSE Ok

core_initiate_admin_transfer(signer, new_authority) ==
    LET err == initiate_admin_transfer_err(signer) IN
    /\ last' = [op |-> "initiate_admin_transfer", err |-> err,
                arg |-> [signer |-> signer, new_authority |-> new_authority]]
    /\ IF err = Ok
       THEN /\ global_state' =
                 [global_state EXCEPT
                    !.pending_authority = new_authority,
                    !.transfer_timelock = now + ADMIN_TRANSFER_DELAY]
            /\ transfer_initiated' =
                 [new_authority |-> new_authority, at |-> now]
       ELSE UNCHANGED <<global_state, transfer_initiated>>
    /\ UNCHANGED <<now, ili_oracle, agent_registry, proposals>>

execute_admin_transfer_errMutNoTimelock ==
    IF ~(global_state.pending_authority # None) THEN "NoPendingTransfer"
    ELSE Ok

execute_admin_transfer_err ==
    IF ~(now >= global_state.transfer_timelock) THEN "TimelockNotExpired"
    ELSE IF ~(global_state.pending_authority # None) THEN "NoPendingTransfer"
    ELSE Ok

core_execute_admin_transfer ==
    LET err == execute_admin_transfer_err IN
    /\ last' = [op |-> "execute_admin_transfer", err |-> err, arg |-> <<>>]
    /\ global_state' =
         IF err = Ok
         THEN [global_state EXCEPT
                 !.authority = global_state.pending_authority,
                 !.pending_authority = None,
                 !.transfer_timelock = 0]
         ELSE global_state
    /\ UNCHANGED <<now, ili_oracle, agent_registry, proposals,
                   transfer_initiated>>

(***************************************************************************)
(* ars-core: register_agent, slash_agent.                                  *)
(***************************************************************************)
\* state.rs, AgentTier::from_stake.
from_stakeMutFlat(stake_amount) == "Bronze"

from_stake(stake_amount) ==
    IF stake_amount >= PlatinumMinStake THEN "Platinum"
    ELSE IF stake_amount >= GoldMinStake THEN "Gold"
    ELSE IF stake_amount >= SilverMinStake THEN "Silver"
    ELSE "Bronze"

register_agent_err(a, stake_amount) ==
    IF agent_registry[a].registered THEN "AccountAlreadyInUse"
    ELSE IF ~(stake_amount >= MIN_STAKE) THEN "InsufficientStake"
    ELSE Ok

core_register_agent(a, stake_amount) ==
    LET err == register_agent_err(a, stake_amount) IN
    /\ last' = [op |-> "register_agent", err |-> err,
                arg |-> [agent |-> a, stake_amount |-> stake_amount]]
    /\ agent_registry' =
         IF err = Ok
         THEN [agent_registry EXCEPT ![a] =
                 [registered |-> TRUE,
                  agent_tier |-> from_stake(stake_amount),
                  stake_amount |-> stake_amount,
                  reputation_score |-> 0, slashed_amount |-> 0,
                  is_active |-> TRUE]]
         ELSE agent_registry
    /\ UNCHANGED <<now, global_state, ili_oracle, proposals,
                   transfer_initiated>>

slash_agent_errMutNoAuthority(signer, a, slash_amount) ==
    IF ~(slash_amount <= agent_registry[a].stake_amount)
    THEN "SlashAmountTooHigh"
    ELSE Ok

slash_agent_err(signer, a, slash_amount) ==
    IF ~(signer = global_state.authority) THEN "Unauthorized"
    ELSE IF ~(slash_amount <= agent_registry[a].stake_amount)
         THEN "SlashAmountTooHigh"
    ELSE Ok

\* slash_agent lines 360-362: `checked_sub(50).unwrap_or(-1000)` on the i32
\* reputation; the subtraction fails only below the least i32.
slashed_reputationMutReward(reputation_score) ==
    reputation_score + SLASH_REPUTATION_PENALTY

slashed_reputation(reputation_score) ==
    IF reputation_score - SLASH_REPUTATION_PENALTY < I32Min
    THEN REPUTATION_FLOOR
    ELSE reputation_score - SLASH_REPUTATION_PENALTY

\* slash_agent lines 364-366: is_active after a slash that leaves `stake`.
slashed_is_activeMutKeep(ag, stake) == ag.is_active

slashed_is_active(ag, stake) ==
    IF stake < MIN_STAKE THEN FALSE ELSE ag.is_active

core_slash_agent(signer, a, slash_amount) ==
    LET err == slash_agent_err(signer, a, slash_amount)
        ag == agent_registry[a]
        stake == ag.stake_amount - slash_amount
    IN
    /\ agent_registry[a].registered
    /\ last' = [op |-> "slash_agent", err |-> err,
                arg |-> [signer |-> signer, agent |-> a,
                         slash_amount |-> slash_amount]]
    /\ agent_registry' =
         IF err = Ok
         THEN [agent_registry EXCEPT ![a] =
                 [ag EXCEPT !.stake_amount = stake,
                            !.slashed_amount = ag.slashed_amount + slash_amount,
                            !.reputation_score =
                                slashed_reputation(ag.reputation_score),
                            !.is_active = slashed_is_active(ag, stake)]]
         ELSE agent_registry
    /\ UNCHANGED <<now, global_state, ili_oracle, proposals,
                   transfer_initiated>>

(***************************************************************************)
(* ars-core: submit_ili_update.                                            *)
(***************************************************************************)
submit_ili_update_err(a) ==
    IF ~agent_registry[a].is_active THEN "AgentNotActive"
    ELSE IF global_state.circuit_breaker_active THEN "CircuitBreakerActive"
    ELSE Ok

\* line 192: the pending set, the new update appended, has reached consensus.
ReachesConsensusMutGreater(pending) ==
    Len(pending) > ili_oracle.consensus_threshold

ReachesConsensus(pending) ==
    Len(pending) >= ili_oracle.consensus_threshold

\* lines 205-207: the oracle after an aggregation of `pending`.
Aggregated(pending) ==
    [ili_oracle EXCEPT !.current_ili = Median(PendingValues(pending)),
                       !.last_update = now,
                       !.pending_updates = <<>>]

core_submit_ili_update(a, ili_value, timestamp) ==
    LET err == submit_ili_update_err(a)
        pending == Append(ili_oracle.pending_updates,
                          [agent |-> a, ili_value |-> ili_value,
                           timestamp |-> timestamp])
    IN
    /\ agent_registry[a].registered
    /\ last' = [op |-> "submit_ili_update", err |-> err,
                arg |-> [agent |-> a, ili_value |-> ili_value,
                         timestamp |-> timestamp]]
    /\ ili_oracle' =
         IF err # Ok THEN ili_oracle
         ELSE IF ReachesConsensus(pending) THEN Aggregated(pending)
         ELSE [ili_oracle EXCEPT !.pending_updates = pending]
    /\ UNCHANGED <<now, global_state, agent_registry, proposals,
                   transfer_initiated>>

(***************************************************************************)
(* ars-protocol/programs/ars-token (lib.rs): initialize, mint_aru,         *)
(* burn_aru, start_new_epoch.                                              *)
(***************************************************************************)
AruInit(epoch_duration, mint_cap_per_epoch_bps, burn_cap_per_epoch_bps) ==
    /\ epoch_duration > 0
    /\ mint_cap_per_epoch_bps <= 10000
    /\ burn_cap_per_epoch_bps <= 10000
    /\ mint_state = [current_epoch |-> 0,
                     epoch_start |-> StartTime,
                     epoch_duration |-> epoch_duration,
                     total_supply |-> 0,
                     epoch_minted |-> 0,
                     epoch_burned |-> 0,
                     mint_cap_per_epoch_bps |-> mint_cap_per_epoch_bps,
                     burn_cap_per_epoch_bps |-> burn_cap_per_epoch_bps]
    /\ epoch_history = <<>>
    /\ aru_epoch_supply = 0

\* total_supply.checked_mul(bps)?.checked_div(10000)?
aru_capMutAbsolute(total_supply, bps) == bps

aru_cap(total_supply, bps) == (total_supply * bps) \div 10000

mint_aru_err(amount) ==
    IF mint_state.total_supply * mint_state.mint_cap_per_epoch_bps > U64Max
    THEN "ArithmeticOverflow"
    ELSE IF mint_state.epoch_minted + amount > U64Max THEN "ArithmeticOverflow"
    ELSE IF ~(mint_state.epoch_minted + amount
                <= aru_cap(mint_state.total_supply,
                           mint_state.mint_cap_per_epoch_bps))
         THEN "MintCapExceeded"
    ELSE IF mint_state.total_supply + amount > U64Max THEN "ArithmeticOverflow"
    ELSE Ok

aru_mint_aru(amount) ==
    LET err == mint_aru_err(amount) IN
    /\ last' = [op |-> "mint_aru", err |-> err, arg |-> [amount |-> amount]]
    /\ mint_state' =
         IF err = Ok
         THEN [mint_state EXCEPT
                 !.epoch_minted = mint_state.epoch_minted + amount,
                 !.total_supply = mint_state.total_supply + amount]
         ELSE mint_state
    /\ UNCHANGED <<now, epoch_history, aru_epoch_supply>>

burn_aru_err(amount) ==
    IF mint_state.total_supply * mint_state.burn_cap_per_epoch_bps > U64Max
    THEN "ArithmeticOverflow"
    ELSE IF mint_state.epoch_burned + amount > U64Max THEN "ArithmeticOverflow"
    ELSE IF ~(mint_state.epoch_burned + amount
                <= aru_cap(mint_state.total_supply,
                           mint_state.burn_cap_per_epoch_bps))
         THEN "BurnCapExceeded"
    ELSE IF mint_state.total_supply < amount THEN "ArithmeticOverflow"
    ELSE Ok

aru_burn_aru(amount) ==
    LET err == burn_aru_err(amount) IN
    /\ last' = [op |-> "burn_aru", err |-> err, arg |-> [amount |-> amount]]
    /\ mint_state' =
         IF err = Ok
         THEN [mint_state EXCEPT
                 !.epoch_burned = mint_state.epoch_burned + amount,
                 !.total_supply = mint_state.total_supply - amount]
         ELSE mint_state
    /\ UNCHANGED <<now, epoch_history, aru_epoch_supply>>

start_new_epoch_err ==
    IF ~(now >= mint_state.epoch_start + mint_state.epoch_duration)
    THEN "EpochNotComplete"
    ELSE Ok

aru_start_new_epoch ==
    LET err == start_new_epoch_err IN
    /\ last' = [op |-> "start_new_epoch", err |-> err, arg |-> <<>>]
    /\ IF err = Ok
       THEN /\ epoch_history' =
                 Append(epoch_history,
                        [epoch_number |-> mint_state.current_epoch,
                         start_time |-> mint_state.epoch_start,
                         end_time |-> now,
                         total_minted |-> mint_state.epoch_minted,
                         total_burned |-> mint_state.epoch_burned,
                         net_supply_change |->
                             mint_state.epoch_minted - mint_state.epoch_burned,
                         final_supply |-> mint_state.total_supply])
            /\ mint_state' =
                 [mint_state EXCEPT
                    !.current_epoch = mint_state.current_epoch + 1,
                    !.epoch_start = now,
                    !.epoch_minted = 0,
                    !.epoch_burned = 0]
            /\ aru_epoch_supply' = mint_state.total_supply
       ELSE UNCHANGED <<mint_state, epoch_history, aru_epoch_supply>>
    /\ UNCHANGED now

(***************************************************************************)
(* programs/ars-token: initialize_mint, burn_icu; programs/icb-token:      *)
(* start_new_epoch.  The Mint's supply is held by the burn_from account.   *)
(***************************************************************************)
IcuInit(epoch_duration, mint_burn_cap_bps, supply) ==
    /\ epoch_duration > 0
    /\ mint_burn_cap_bps <= 10000
    /\ mint_supply = supply
    /\ token_state = [epoch_duration |-> epoch_duration,
                      mint_burn_cap_bps |-> mint_burn_cap_bps,
                      current_epoch |-> 0,
                      epoch_start_time |-> StartTime,
                      epoch_minted |-> 0,
                      epoch_burned |-> 0,
                      total_supply_at_epoch_start |-> supply,
                      circuit_breaker_active |-> FALSE]

\* The epoch window of ts has elapsed.
EpochEnded(ts) == now >= ts.epoch_start_time + ts.epoch_duration

\* burn_icu lines 43-50, start_new_epoch lines 23-28: the new epoch.
RolledOver(ts) ==
    [ts EXCEPT !.current_epoch = ts.current_epoch + 1,
               !.epoch_start_time = now,
               !.epoch_minted = 0,
               !.epoch_burned = 0,
               !.total_supply_at_epoch_start = mint_supply]

\* burn_icu lines 53-57: the burn cap of the epoch.
icu_burn_capMutNoBps(ts) == ts.total_supply_at_epoch_start

icu_burn_cap(ts) ==
    (ts.total_supply_at_epoch_start * ts.mint_burn_cap_bps) \div 10000

burn_icu_err(amount) ==
    LET ts == IF EpochEnded(token_state) THEN RolledOver(token_state)
              ELSE token_state
    IN
    IF token_state.circuit_breaker_active THEN "CircuitBreakerActive"
    ELSE IF ~(amount > 0) THEN "InvalidAmount"
    ELSE IF ts.epoch_burned + amount > U64Max THEN "ArithmeticOverflow"
    ELSE IF ~(ts.epoch_burned + amount <= icu_burn_cap(ts))
         THEN "BurnCapExceeded"
    ELSE IF amount > mint_supply THEN "InsufficientFunds"
    ELSE Ok

icu_burn_icu(amount) ==
    LET err == burn_icu_err(amount)
        ts == IF EpochEnded(token_state) THEN RolledOver(token_state)
              ELSE token_state
    IN
    /\ last' = [op |-> "burn_icu", err |-> err, arg |-> [amount |-> amount]]
    /\ IF err = Ok
       THEN /\ token_state' =
                 [ts EXCEPT !.epoch_burned = ts.epoch_burned + amount]
            /\ mint_supply' = mint_supply - amount
       ELSE UNCHANGED <<token_state, mint_supply>>
    /\ UNCHANGED now

icu_start_new_epoch ==
    /\ last' = [op |-> "icu_start_new_epoch", err |-> Ok, arg |-> <<>>]
    /\ token_state' = IF EpochEnded(token_state) THEN RolledOver(token_state)
                      ELSE token_state
    /\ UNCHANGED <<now, mint_supply>>

\* The token programs as deployed beside a specification that does not
\* exercise them.
TokenIdle == AruInit(100, 200, 200) /\ IcuInit(100, 200, 1000)

(***************************************************************************)
(* ars-protocol/programs/ars-reserve (lib.rs): initialize, deposit,        *)
(* withdraw, rebalance.  One USD per token; the amounts of this model are  *)
(* far below u64::MAX / 10000, so the checked additions and                *)
(* multiplications of the reserve programs succeed.                        *)
(***************************************************************************)
ReserveInit(min_vhr, rebalance_threshold_bps) ==
    /\ min_vhr >= 10000
    /\ rebalance_threshold_bps <= 10000
    /\ reserve_vault = [total_value_usd |-> 0,
                        liabilities_usd |-> 0,
                        vhr |-> U16_MAX,
                        last_rebalance |-> 0,
                        rebalance_threshold_bps |-> rebalance_threshold_bps,
                        min_vhr |-> min_vhr]
    /\ reserve_token_balance = 0

\* `x as u16`
AsU16(x) == x % (U16_MAX + 1)

calculate_vhrMutNoSentinel(total_value_usd, liabilities_usd) ==
    IF liabilities_usd = 0 THEN 0
    ELSE AsU16((total_value_usd * 10000) \div liabilities_usd)

calculate_vhr(total_value_usd, liabilities_usd) ==
    IF liabilities_usd = 0 THEN U16_MAX
    ELSE AsU16((total_value_usd * 10000) \div liabilities_usd)

reserve_deposit_err(amount) ==
    IF ~(amount > 0) THEN "InvalidAmount"
    ELSE IF amount > UserTokens - reserve_token_balance THEN "InsufficientFunds"
    ELSE Ok

reserve_deposit(amount) ==
    LET err == reserve_deposit_err(amount)
        total == reserve_vault.total_value_usd + amount
    IN
    /\ last' = [op |-> "reserve_deposit", err |-> err,
                arg |-> [amount |-> amount]]
    /\ IF err = Ok
       THEN /\ reserve_token_balance' = reserve_token_balance + amount
            /\ reserve_vault' =
                 [reserve_vault EXCEPT
                    !.total_value_usd = total,
                    !.vhr = calculate_vhr(total, reserve_vault.liabilities_usd)]
       ELSE UNCHANGED <<reserve_vault, reserve_token_balance>>
    /\ UNCHANGED now

reserve_withdraw_err(amount) ==
    IF ~(amount <= reserve_token_balance) THEN "InsufficientBalance"
    ELSE IF reserve_vault.total_value_usd < amount THEN "ArithmeticOverflow"
    ELSE IF ~(calculate_vhr(reserve_vault.total_value_usd - amount,
                            reserve_vault.liabilities_usd)
                >= reserve_vault.min_vhr)
         THEN "VHRTooLow"
    ELSE Ok

reserve_withdraw(amount) ==
    LET err == reserve_withdraw_err(amount)
        new_total_value == reserve_vault.total_value_usd - amount
    IN
    /\ last' = [op |-> "reserve_withdraw", err |-> err,
                arg |-> [amount |-> amount]]
    /\ IF err = Ok
       THEN /\ reserve_token_balance' = reserve_token_balance - amount
            /\ reserve_vault' =
                 [reserve_vault EXCEPT
                    !.total_value_usd = new_total_value,
                    !.vhr = calculate_vhr(new_total_value,
                                          reserve_vault.liabilities_usd)]
       ELSE UNCHANGED <<reserve_vault, reserve_token_balance>>
    /\ UNCHANGED now

reserve_rebalance_err ==
    IF ~(reserve_vault.vhr < reserve_vault.rebalance_threshold_bps)
    THEN "RebalanceNotNeeded"
    ELSE Ok

reserve_rebalance ==
    LET err == reserve_rebalance_err IN
    /\ last' = [op |-> "reserve_rebalance", err |-> err, arg |-> <<>>]
    /\ reserve_vault' =
         IF err = Ok
         THEN [reserve_vault EXCEPT
                 !.last_rebalance = now,
                 !.vhr = calculate_vhr(reserve_vault.total_value_usd,
                                       reserve_vault.liabilities_usd)]
         ELSE reserve_vault
    /\ UNCHANGED <<now, reserve_token_balance>>

(***************************************************************************)
(* programs/ars-reserve: deposit, withdraw, update_vhr, rebalance; the     *)
(* vault is created by initialize_vault (programs/icb-reserve).            *)
(***************************************************************************)
VaultInit(rebalance_threshold_bps) ==
    /\ rebalance_threshold_bps > 0 /\ rebalance_threshold_bps <= 10000
    /\ vault = [total_value_usd |-> 0,
                liabilities_usd |-> 0,
                vhr |-> 0,
                last_rebalance |-> 0,
                rebalance_threshold_bps |-> rebalance_threshold_bps,
                locked |-> FALSE]
    /\ vault_token_balance = 0

vault_deposit_err(amount) ==
    IF ~(amount > 0) THEN "InvalidAmount"
    ELSE IF vault.locked THEN "ReentrancyDetected"
    ELSE IF ~(UserTokens - vault_token_balance >= amount)
         THEN "InsufficientVaultBalance"
    ELSE Ok

vault_deposit(amount) ==
    LET err == vault_deposit_err(amount) IN
    /\ last' = [op |-> "vault_deposit", err |-> err,
                arg |-> [amount |-> amount]]
    /\ IF err = Ok
       THEN /\ vault_token_balance' = vault_token_balance + amount
            /\ vault' = [vault EXCEPT
                           !.total_value_usd = vault.total_value_usd + amount,
                           !.locked = FALSE]
       ELSE UNCHANGED <<vault, vault_token_balance>>
    /\ UNCHANGED now

\* withdraw.rs lines 50-54: the ratio after the withdrawal.
withdraw_new_vhr(new_total_value) ==
    IF vault.liabilities_usd > 0
    THEN AsU16((new_total_value * 10000) \div vault.liabilities_usd)
    ELSE 10000

vault_withdraw_err(amount) ==
    IF ~(amount > 0) THEN "InvalidAmount"
    ELSE IF ~(vault_token_balance >= amount) THEN "InsufficientVaultBalance"
    ELSE IF vault.locked THEN "ReentrancyDetected"
    ELSE IF vault.total_value_usd < amount THEN "ArithmeticUnderflow"
    ELSE IF ~(withdraw_new_vhr(vault.total_value_usd - amount)
                >= vault.rebalance_threshold_bps)
         THEN "VHRBelowThreshold"
    ELSE Ok

vault_withdraw(amount) ==
    LET err == vault_withdraw_err(amount)
        new_total_value == vault.total_value_usd - amount
    IN
    /\ last' = [op |-> "vault_withdraw", err |-> err,
                arg |-> [amount |-> amount]]
    /\ IF err = Ok
       THEN /\ vault_token_balance' = vault_token_balance - amount
            /\ vault' = [vault EXCEPT
                           !.total_value_usd = new_total_value,
                           !.vhr = withdraw_new_vhr(new_total_value),
                           !.locked = FALSE]
       ELSE UNCHANGED <<vault, vault_token_balance>>
    /\ UNCHANGED now

vault_update_vhr(total_value_usd, liabilities_usd) ==
    /\ last' = [op |-> "vault_update_vhr", err |-> Ok,
                arg |-> [total_value_usd |-> total_value_usd,
                         liabilities_usd |-> liabilities_usd]]
    /\ vault' = [vault EXCEPT
                   !.total_value_usd = total_value_usd,
                   !.liabilities_usd = liabilities_usd,
                   !.vhr = IF liabilities_usd > 0
                           THEN AsU16((total_value_usd * 10000)
                                         \div liabilities_usd)
                           ELSE U16_MAX]
    /\ UNCHANGED <<now, vault_token_balance>>

vault_rebalance_err ==
    IF vault.locked THEN "ReentrancyDetected"
    ELSE IF ~(now >= vault.last_rebalance + MIN_REBALANCE_INTERVAL)
         THEN "RebalanceTooFrequent"
    ELSE Ok

vault_rebalance ==
    LET err == vault_rebalance_err IN
    /\ last' = [op |-> "vault_rebalance", err |-> err, arg |-> <<>>]
    /\ vault' = IF err = Ok
                THEN [vault EXCEPT !.last_rebalance = now, !.locked = FALSE]
                ELSE vault
    /\ UNCHANGED <<now, vault_token_balance>>

(***************************************************************************)
(* The reserve instructions in two steps, around their external call       *)
(* (token::transfer): `enter` runs the handler up to the call, `return`    *)
(* runs it from the call's success to its end.  While an instruction is    *)
(* inside the call (a frame of in_flight) another instruction on the same  *)
(* vault may be entered; it sees the vault as the first has left it.  A    *)
(* call that fails fails its instruction, and with it everything done      *)
(* since the instruction was entered.  rebalance makes no external call.   *)
(***************************************************************************)
Frame(program, op, amount, new_total_value, new_vhr) ==
    [program |-> program, op |-> op, amount |-> amount,
     new_total_value |-> new_total_value, new_vhr |-> new_vhr,
     saved |-> IF program = "reserve"
               THEN <<reserve_vault, reserve_token_balance>>
               ELSE <<vault, vault_token_balance>>]

Top == in_flight[Len(in_flight)]

Pop == SubSeq(in_flight, 1, Len(in_flight) - 1)

\* programs/ars-reserve deposit.rs 34-46, withdraw.rs 32-59.
vault_enter(op, amount) ==
    LET err == IF op = "vault_deposit" THEN vault_deposit_err(amount)
               ELSE vault_withdraw_err(amount)
        new_total_value == vault.total_value_usd - amount
    IN
    /\ op \in {"vault_deposit", "vault_withdraw"}
    /\ last' = [op |-> op, err |-> IF err = Ok THEN Pending ELSE err,
                arg |-> [amount |-> amount]]
    /\ IF err = Ok
       THEN /\ vault' = [vault EXCEPT !.locked = TRUE]
            /\ in_flight' =
                 Append(in_flight,
                        IF op = "vault_deposit"
                        THEN Frame("vault", op, amount, 0, 0)
                        ELSE Frame("vault", op, amount, new_total_value,
                                   withdraw_new_vhr(new_total_value)))
       ELSE UNCHANGED <<vault, in_flight>>
    /\ UNCHANGED <<now, vault_token_balance, reserveBVars>>

\* deposit.rs 58-71, withdraw.rs 75-88: the transfer has succeeded.
vault_returnMutKeepLock ==
    LET f == Top IN
    /\ f.program = "vault"
    /\ last' = [op |-> f.op, err |-> Ok, arg |-> [amount |-> f.amount]]
    /\ in_flight' = Pop
    /\ IF f.op = "vault_deposit"
       THEN /\ UserTokens - vault_token_balance >= f.amount
            /\ vault_token_balance' = vault_token_balance + f.amount
            /\ vault' = [vault EXCEPT
                           !.total_value_usd = vault.total_value_usd + f.amount]
       ELSE /\ vault_token_balance >= f.amount
            /\ vault_token_balance' = vault_token_balance - f.amount
            /\ vault' = [vault EXCEPT
                           !.total_value_usd = f.new_total_value,
                           !.vhr = f.new_vhr]
    /\ UNCHANGED <<now, reserveBVars>>

vault_return ==
    LET f == Top IN
    /\ f.program = "vault"
    /\ last' = [op |-> f.op, err |-> Ok, arg |-> [amount |-> f.amount]]
    /\ in_flight' = Pop
    /\ IF f.op = "vault_deposit"
       THEN /\ UserTokens - vault_token_balance >= f.amount
            /\ vault_token_balance' = vault_token_balance + f.amount
            /\ vault' = [vault EXCEPT
                           !.total_value_usd = vault.total_value_usd + f.amount,
                           !.locked = FALSE]
       ELSE /\ vault_token_balance >= f.amount
            /\ vault_token_balance' = vault_token_balance - f.amount
            /\ vault' = [vault EXCEPT
                           !.total_value_usd = f.new_total_value,
                           !.vhr = f.new_vhr,
                           !.locked = FALSE]
    /\ UNCHANGED <<now, reserveBVars>>

\* ars-protocol ars-reserve lib.rs 42-49 (deposit), 74-100 (withdraw).
reserve_enter(op, amount) ==
    LET err == IF op = "reserve_deposit"
               THEN (IF ~(amount > 0) THEN "InvalidAmount" ELSE Ok)
               ELSE reserve_withdraw_err(amount)
        new_total_value == reserve_vault.total_value_usd - amount
    IN
    /\ op \in {"reserve_deposit", "reserve_withdraw"}
    /\ last' = [op |-> op, err |-> IF err = Ok THEN Pending ELSE err,
                arg |-> [amount |-> amount]]
    /\ in_flight' =
         IF err # Ok THEN in_flight
         ELSE Append(in_flight,
                     IF op = "reserve_deposit"
                     THEN Frame("reserve", op, amount, 0, 0)
                     ELSE Frame("reserve", op, amount, new_total_value,
                                calculate_vhr(new_total_value,
                                              reserve_vault.liabilities_usd)))
    /\ UNCHANGED <<now, reserveBVars, reserveEVars>>

\* lib.rs 62-71 (deposit), 115-118 (withdraw): the transfer has succeeded.
reserve_return ==
    LET f == Top
        total == reserve_vault.total_value_usd + f.amount
    IN
    /\ f.program = "reserve"
    /\ last' = [op |-> f.op, err |-> Ok, arg |-> [amount |-> f.amount]]
    /\ in_flight' = Pop
    /\ IF f.op = "reserve_deposit"
       THEN /\ UserTokens - reserve_token_balance >= f.amount
            /\ reserve_token_balance' = reserve_token_balance + f.amount
            /\ reserve_vault' =
                 [reserve_vault EXCEPT
                    !.total_value_usd = total,
                    !.vhr = calculate_vhr(total, reserve_vault.liabilities_usd)]
       ELSE /\ reserve_token_balance >= f.amount
            /\ reserve_token_balance' = reserve_token_balance - f.amount
            /\ reserve_vault' =
                 [reserve_vault EXCEPT
                    !.total_value_usd = f.new_total_value,
                    !.vhr = f.new_vhr]
    /\ UNCHANGED <<now, reserveEVars>>

\* `token::transfer(...)?`: the transfer has failed, and the instruction
\* with it; its accounts are as they were when it was entered.
transfer_failedMutKeepWrites ==
    LET f == Top IN
    /\ last' = [op |-> f.op, err |-> "TransferFailed",
                arg |-> [amount |-> f.amount]]
    /\ in_flight' = Pop
    /\ UNCHANGED <<now, reserveBVars, reserveEVars>>

transfer_failed ==
    LET f == Top IN
    /\ last' = [op |-> f.op, err |-> "TransferFailed",
                arg |-> [amount |-> f.amount]]
    /\ in_flight' = Pop
    /\ IF f.program = "reserve"
       THEN /\ reserve_vault' = f.saved[1]
            /\ reserve_token_balance' = f.saved[2]
            /\ UNCHANGED reserveEVars
       ELSE /\ vault' = f.saved[1]
            /\ vault_token_balance' = f.saved[2]
            /\ UNCHANGED reserveBVars
    /\ UNCHANGED now

(***************************************************************************)
(* ars-core: create_proposal, vote_on_proposal, trigger_circuit_breaker.   *)
(* Proposal id i is element i + 1 of `proposals`.                          *)
(***************************************************************************)
create_proposal_err(voting_period, params_len) ==
    IF ~(voting_period > 0 /\ voting_period <= MAX_VOTING_PERIOD)
    THEN "InvalidVotingPeriod"
    ELSE IF ~(params_len <= MAX_PARAMS_LEN) THEN "InvalidAmount"
    ELSE Ok

core_create_proposal(voting_period, params_len) ==
    LET err == create_proposal_err(voting_period, params_len) IN
    /\ last' = [op |-> "create_proposal", err |-> err,
                arg |-> [voting_period |-> voting_period,
                         params_len |-> params_len]]
    /\ IF err = Ok
       THEN /\ proposals' =
                 Append(proposals,
                        [id |-> global_state.proposal_counter,
                         start_time |-> now,
                         end_time |-> now + voting_period,
                         yes_stake |-> 0, no_stake |-> 0,
                         quadratic_yes |-> 0, quadratic_no |-> 0,
                         status |-> "Active"])
            /\ global_state' =
                 [global_state EXCEPT
                    !.proposal_counter = global_state.proposal_counter + 1]
       ELSE UNCHANGED <<proposals, global_state>>
    /\ UNCHANGED <<now, ili_oracle, agent_registry,
                   transfer_initiated>>

\* `(stake_amount as f64).sqrt() as u64` (line 281) in its three steps: the
\* conversion of the u64 to the nearest f64, the correctly rounded square
\* root, and the truncating (saturating) conversion back.  An f64 carries
\* F64Digits significant bits; a float is written [m, k] for m / 2^k.
RECURSIVE Pow2(_)
Pow2(k) == IF k = 0 THEN 1 ELSE 2 * Pow2(k - 1)

RECURSIVE BitLen(_)
BitLen(n) == IF n = 0 THEN 0 ELSE 1 + BitLen(n \div 2)

\* The integer square root, by the digit-by-digit method.
RECURSIVE FloorSqrt(_)
FloorSqrt(n) ==
    IF n < 2 THEN n
    ELSE LET r == 2 * FloorSqrt(n \div 4)
         IN  IF (r + 1) * (r + 1) <= n THEN r + 1 ELSE r

\* u64 -> f64: exact up to F64Digits bits, else round to nearest, ties to
\* even, at the spacing of the value's binade.
AsF64(n) ==
    IF BitLen(n) <= F64Digits THEN n
    ELSE LET ulp == Pow2(BitLen(n) - F64Digits)
             q == n \div ulp
             rem == n % ulp
             up == rem * 2 > ulp \/ (rem * 2 = ulp /\ q % 2 = 1)
         IN  (IF up THEN q + 1 ELSE q) * ulp

\* f64::sqrt of an integral float: the root rounded to F64Digits bits (the
\* root of an integer is never half-way between two floats).
F64Sqrt(x) ==
    IF x = 0 THEN [m |-> 0, k |-> 0]
    ELSE LET k == F64Digits - BitLen(FloorSqrt(x))
             scaled == x * Pow2(2 * k)
             n == FloorSqrt(scaled)
         IN  [m |-> IF scaled > n * n + n THEN n + 1 ELSE n, k |-> k]

\* f64 -> u64: the fraction is dropped, the result saturates at u64::MAX.
AsU64(f) ==
    LET t == f.m \div Pow2(f.k) IN IF t > U64Max THEN U64Max ELSE t

voting_power(stake_amount) == AsU64(F64Sqrt(AsF64(stake_amount)))

vote_on_proposal_errMutNoActive(a, id) ==
    IF ~(now >= At(proposals, id).start_time /\ now < At(proposals, id).end_time)
    THEN "ProposalNotActive"
    ELSE Ok

vote_on_proposal_err(a, id) ==
    IF ~(now >= At(proposals, id).start_time /\ now < At(proposals, id).end_time)
    THEN "ProposalNotActive"
    ELSE IF ~agent_registry[a].is_active THEN "AgentNotActive"
    ELSE Ok

core_vote_on_proposal(a, id, vote_yes, stake_amount) ==
    LET err == vote_on_proposal_err(a, id)
        proposal == At(proposals, id)
        power == voting_power(stake_amount)
    IN
    /\ agent_registry[a].registered
    /\ last' = [op |-> "vote_on_proposal", err |-> err,
                arg |-> [agent |-> a, id |-> id, vote_yes |-> vote_yes,
                         stake_amount |-> stake_amount]]
    /\ proposals' =
         IF err # Ok THEN proposals
         ELSE IF vote_yes
         THEN [proposals EXCEPT ![id + 1] =
                 [proposal EXCEPT
                    !.yes_stake = proposal.yes_stake + stake_amount,
                    !.quadratic_yes = proposal.quadratic_yes + power]]
         ELSE [proposals EXCEPT ![id + 1] =
                 [proposal EXCEPT
                    !.no_stake = proposal.no_stake + stake_amount,
                    !.quadratic_no = proposal.quadratic_no + power]]
    /\ UNCHANGED <<now, global_state, ili_oracle, agent_registry,
                   transfer_initiated>>

trigger_circuit_breaker_errMutNoCheck(a) == Ok

trigger_circuit_breaker_err(a) ==
    IF ~(agent_registry[a].reputation_score >= MIN_TRIGGER_REPUTATION)
    THEN "InsufficientReputation"
    ELSE Ok

core_trigger_circuit_breaker(a) ==
    LET err == trigger_circuit_breaker_err(a) IN
    /\ agent_registry[a].registered
    /\ last' = [op |-> "trigger_circuit_breaker", err |-> err,
                arg |-> [agent |-> a]]
    /\ global_state' =
         IF err = Ok
         THEN [global_state EXCEPT
                 !.circuit_breaker_active = TRUE,
                 !.circuit_breaker_timelock = now + CIRCUIT_BREAKER_DELAY]
         ELSE global_state
    /\ UNCHANGED <<now, ili_oracle, agent_registry, proposals,
                   transfer_initiated>>

(***************************************************************************)
(* icb-core: initialize, activate_circuit_breaker, create_proposal,        *)
(* vote_on_proposal, execute_proposal.  A proposal's account is addressed  *)
(* by its id, the creation timestamp; policy_params are within the limit.  *)
(***************************************************************************)
IcbInit ==
    /\ icb_global_state = [authority |-> "admin",
                           circuit_breaker_active |-> FALSE]
    /\ icb_proposals = <<>>
    /\ icb_vote_records = <<>>
    /\ breaker_tripped_at = 0

activate_circuit_breaker_err(signer) ==
    IF ~(icb_global_state.authority = signer) THEN "Unauthorized" ELSE Ok

icb_activate_circuit_breaker(signer) ==
    LET err == activate_circuit_breaker_err(signer) IN
    /\ last' = [op |-> "activate_circuit_breaker", err |-> err,
                arg |-> [signer |-> signer]]
    /\ IF err = Ok
       THEN /\ icb_global_state' =
                 [icb_global_state EXCEPT
                    !.circuit_breaker_active =
                        ~icb_global_state.circuit_breaker_active]
            /\ breaker_tripped_at' =
                 IF ~icb_global_state.circuit_breaker_active THEN now
                 ELSE breaker_tripped_at
       ELSE UNCHANGED <<icb_global_state, breaker_tripped_at>>
    /\ UNCHANGED <<now, icb_proposals, icb_vote_records>>

icb_create_proposal_err(duration) ==
    IF now \in DOMAIN icb_proposals THEN "AccountAlreadyInUse"
    ELSE IF icb_global_state.circuit_breaker_active THEN "CircuitBreakerActive"
    ELSE IF ~(duration >= MIN_VOTING_PERIOD /\ duration <= MAX_VOTING_PERIOD)
         THEN "InvalidVotingPeriod"
    ELSE Ok

icb_create_proposal(duration) ==
    LET err == icb_create_proposal_err(duration) IN
    /\ last' = [op |-> "icb_create_proposal", err |-> err,
                arg |-> [duration |-> duration]]
    /\ icb_proposals' =
         IF err = Ok
         THEN icb_proposals @@
                (now :> [id |-> now,
                         start_time |-> now,
                         end_time |-> now + duration,
                         yes_stake |-> 0, no_stake |-> 0,
                         status |-> "Active"])
         ELSE icb_proposals
    /\ UNCHANGED <<now, icb_global_state, icb_vote_records, breaker_tripped_at>>

icb_vote_on_proposal_errMutNoWindow(a, id, stake_amount) ==
    IF <<id, a>> \in DOMAIN icb_vote_records THEN "AccountAlreadyInUse"
    ELSE IF ~(icb_proposals[id].status = "Active") THEN "ProposalNotActive"
    ELSE IF ~(stake_amount > 0) THEN "InvalidStakeAmount"
    ELSE Ok

icb_vote_on_proposal_err(a, id, stake_amount) ==
    IF <<id, a>> \in DOMAIN icb_vote_records THEN "AccountAlreadyInUse"
    ELSE IF ~(icb_proposals[id].status = "Active") THEN "ProposalNotActive"
    ELSE IF ~(stake_amount > 0) THEN "InvalidStakeAmount"
    ELSE IF ~(now < icb_proposals[id].end_time) THEN "ProposalNotActive"
    ELSE Ok

icb_vote_on_proposal(a, id, prediction, stake_amount) ==
    LET err == icb_vote_on_proposal_err(a, id, stake_amount)
        proposal == icb_proposals[id]
    IN
    /\ last' = [op |-> "icb_vote_on_proposal", err |-> err,
                arg |-> [agent |-> a, id |-> id, prediction |-> prediction,
                         stake_amount |-> stake_amount]]
    /\ IF err = Ok
       THEN /\ icb_proposals' =
                 [icb_proposals EXCEPT ![id] =
                    IF prediction
                    THEN [proposal EXCEPT
                            !.yes_stake = proposal.yes_stake + stake_amount]
                    ELSE [proposal EXCEPT
                            !.no_stake = proposal.no_stake + stake_amount]]
            /\ icb_vote_records' =
                 icb_vote_records @@
                   (<<id, a>> :> [stake_amount |-> stake_amount,
                                  prediction |-> prediction,
                                  timestamp |-> now])
       ELSE UNCHANGED <<icb_proposals, icb_vote_records>>
    /\ UNCHANGED <<now, icb_global_state, breaker_tripped_at>>

\* execute_proposal.rs lines 43-47: the yes share in basis points.
yes_percentage(proposal) ==
    (proposal.yes_stake * 10000) \div (proposal.yes_stake + proposal.no_stake)

execute_proposal_err(id) ==
    IF ~(icb_proposals[id].status = "Active") THEN "ProposalNotActive"
    ELSE IF ~(now >= icb_proposals[id].end_time) THEN "ProposalStillActive"
    ELSE IF ~(icb_proposals[id].yes_stake + icb_proposals[id].no_stake > 0)
         THEN "InsufficientStake"
    ELSE Ok

\* execute_proposal.rs lines 49-71: the status the execution leaves.
ExecutedStatus(proposal) ==
    IF yes_percentage(proposal) > 5000 THEN "Executed" ELSE "Failed"

icb_execute_proposal(id) ==
    LET err == execute_proposal_err(id) IN
    /\ last' = [op |-> "execute_proposal", err |-> err, arg |-> [id |-> id]]
    /\ icb_proposals' =
         IF err = Ok
         THEN [icb_proposals EXCEPT
                 ![id].status = ExecutedStatus(icb_proposals[id])]
         ELSE icb_proposals
    /\ UNCHANGED <<now, icb_global_state, icb_vote_records, breaker_tripped_at>>

\* The reserve programs as deployed beside a specification that does not
\* exercise them.
ReserveIdle == ReserveInit(15000, 10000) /\ VaultInit(10000)

(***************************************************************************)
(* Specification of the oracle: agents register, are slashed, and submit.  *)
(***************************************************************************)
OracleRegister ==
    /\ \E a \in Agents, s \in RegisterStakes : core_register_agent(a, s)
    /\ UNCHANGED <<tokenVars, reserveVars, icbVars>>

OracleSlash ==
    \E sg \in Signers, a \in Agents, amt \in SlashAmounts :
        /\ agent_registry[a].reputation_score
              > -(MaxSlashes * SLASH_REPUTATION_PENALTY)
        /\ core_slash_agent(sg, a, amt)
        /\ UNCHANGED <<tokenVars, reserveVars, icbVars>>

OracleSubmit ==
    /\ \E a \in Agents, v \in IliValues : core_submit_ili_update(a, v, now)
    /\ UNCHANGED <<tokenVars, reserveVars, icbVars>>

OracleTick ==
    /\ \E d \in OracleSteps : Tick(d, OracleHorizon)
    /\ UNCHANGED <<coreVars, tokenVars, reserveVars, icbVars>>

OracleNext == OracleRegister \/ OracleSlash \/ OracleSubmit \/ OracleTick

Init == ClockInit /\ CoreInit /\ TokenIdle /\ ReserveIdle /\ IcbInit

OracleSpec == Init /\ [][OracleNext]_vars

(***************************************************************************)
(* Specification of the agent registry and of the ars-core circuit         *)
(* breaker: registrations over all tiers, slashes by any signer, trips.    *)
(***************************************************************************)
RegistryRegister ==
    /\ \E a \in Agents, s \in RegistryStakes : core_register_agent(a, s)
    /\ UNCHANGED <<tokenVars, reserveVars, icbVars>>

RegistrySlash ==
    /\ \E sg \in Signers, a \in Agents, amt \in RegistrySlashAmounts :
          /\ agent_registry[a].reputation_score
                > -(MaxRegistrySlashes * SLASH_REPUTATION_PENALTY)
          /\ core_slash_agent(sg, a, amt)
    /\ UNCHANGED <<tokenVars, reserveVars, icbVars>>

RegistryTrigger ==
    /\ \E a \in Agents : core_trigger_circuit_breaker(a)
    /\ UNCHANGED <<tokenVars, reserveVars, icbVars>>

RegistryTick ==
    /\ \E d \in RegistrySteps : Tick(d, RegistryHorizon)
    /\ UNCHANGED <<coreVars, tokenVars, reserveVars, icbVars>>

RegistryNext ==
    RegistryRegister \/ RegistrySlash \/ RegistryTrigger \/ RegistryTick

RegistrySpec == Init /\ [][RegistryNext]_vars

(***************************************************************************)
(* Specification of the supply controllers.                                *)
(***************************************************************************)
TokenInit ==
    /\ ClockInit
    /\ CoreInit
    /\ ReserveIdle
    /\ IcbInit
    /\ \E d \in EpochDurations, bps \in CapBps, supply \in InitialSupplies :
          AruInit(d, bps, bps) /\ IcuInit(d, bps, supply)

TokenMintAru ==
    /\ \E amount \in TokenAmounts : aru_mint_aru(amount)
    /\ UNCHANGED <<icuVars, coreVars, reserveVars, icbVars>>

TokenBurnAru ==
    /\ \E amount \in TokenAmounts : aru_burn_aru(amount)
    /\ UNCHANGED <<icuVars, coreVars, reserveVars, icbVars>>

TokenStartNewEpoch == aru_start_new_epoch /\ UNCHANGED <<icuVars, coreVars, reserveVars, icbVars>>

TokenBurnIcu ==
    /\ \E amount \in TokenAmounts : icu_burn_icu(amount)
    /\ UNCHANGED <<aruVars, coreVars, reserveVars, icbVars>>

TokenStartNewEpochIcu == icu_start_new_epoch /\ UNCHANGED <<aruVars, coreVars, reserveVars, icbVars>>

TokenTick ==
    /\ \E d \in TokenSteps : Tick(d, TokenHorizon)
    /\ UNCHANGED <<tokenVars, coreVars, reserveVars, icbVars>>

TokenNext ==
    \/ TokenMintAru \/ TokenBurnAru \/ TokenStartNewEpoch
    \/ TokenBurnIcu \/ TokenStartNewEpochIcu \/ TokenTick

TokenSpec == TokenInit /\ [][TokenNext]_vars

(***************************************************************************)
(* Specification of the reserve vaults, beside the icb-core breaker.       *)
(***************************************************************************)
ReserveSpecInit ==
    /\ ClockInit
    /\ CoreInit
    /\ TokenIdle
    /\ IcbInit
    /\ \E min_vhr \in MinVhrs, threshold \in RebalanceThresholds :
          ReserveInit(min_vhr, threshold) /\ VaultInit(threshold)

ReserveDeposit ==
    /\ \E amount \in ReserveAmounts : reserve_deposit(amount)
    /\ UNCHANGED <<reserveEVars, in_flight, coreVars, tokenVars, icbVars>>

ReserveWithdraw ==
    /\ \E amount \in ReserveAmounts : reserve_withdraw(amount)
    /\ UNCHANGED <<reserveEVars, in_flight, coreVars, tokenVars, icbVars>>

ReserveRebalance ==
    /\ reserve_rebalance
    /\ UNCHANGED <<reserveEVars, in_flight, coreVars, tokenVars, icbVars>>

VaultDeposit ==
    /\ \E amount \in ReserveAmounts : vault_deposit(amount)
    /\ UNCHANGED <<reserveBVars, in_flight, coreVars, tokenVars, icbVars>>

VaultWithdraw ==
    /\ \E amount \in ReserveAmounts : vault_withdraw(amount)
    /\ UNCHANGED <<reserveBVars, in_flight, coreVars, tokenVars, icbVars>>

VaultUpdateVhr ==
    /\ \E u \in VhrUpdates : vault_update_vhr(u[1], u[2])
    /\ UNCHANGED <<reserveBVars, in_flight, coreVars, tokenVars, icbVars>>

VaultRebalance ==
    /\ vault_rebalance
    /\ UNCHANGED <<reserveBVars, in_flight, coreVars, tokenVars, icbVars>>

ReserveBreaker ==
    /\ icb_activate_circuit_breaker(icb_global_state.authority)
    /\ UNCHANGED <<reserveVars, coreVars, tokenVars>>

ReserveTick ==
    /\ \E d \in ReserveSteps : Tick(d, ReserveHorizon)
    /\ UNCHANGED <<reserveVars, coreVars, tokenVars, icbVars>>

ReserveNext ==
    \/ ReserveDeposit \/ ReserveWithdraw \/ ReserveRebalance
    \/ VaultDeposit \/ VaultWithdraw \/ VaultUpdateVhr \/ VaultRebalance
    \/ ReserveBreaker \/ ReserveTick

ReserveSpec == ReserveSpecInit /\ [][ReserveNext]_vars

(***************************************************************************)
(* Specification of the reserve instructions in progress: instructions     *)
(* entered one inside the external call of the other, on one vault.        *)
(***************************************************************************)
\* The vault an instruction may be entered on: any, or the one in use.
Enterable(program) ==
    IF in_flight = <<>> THEN TRUE ELSE Top.program = program

ReentryEnterVault ==
    /\ Enterable("vault")
    /\ \E op \in {"vault_deposit", "vault_withdraw"},
          amount \in ReentryAmounts :
          /\ (op = "vault_deposit" /\ vault_deposit_err(amount) = Ok)
                \/ (op = "vault_withdraw" /\ vault_withdraw_err(amount) = Ok)
               => Len(in_flight) < MaxDepth
          /\ vault_enter(op, amount)
    /\ UNCHANGED <<coreVars, tokenVars, icbVars>>

\* (Interleaved withdrawals let total_value_usd run ahead of the tokens in
\* the vault; the specification follows it up to MaxDrift ahead.)
ReentryEnterReserve ==
    /\ Enterable("reserve")
    /\ Len(in_flight) < MaxDepth
    /\ reserve_vault.total_value_usd < reserve_token_balance + MaxDrift
    /\ \E op \in {"reserve_deposit", "reserve_withdraw"},
          amount \in ReentryAmounts : reserve_enter(op, amount)
    /\ UNCHANGED <<coreVars, tokenVars, icbVars>>

ReentryRebalanceVault ==
    /\ Enterable("vault")
    /\ vault_rebalance
    /\ UNCHANGED <<reserveBVars, in_flight, coreVars, tokenVars, icbVars>>

ReentryRebalanceReserve ==
    /\ Enterable("reserve")
    /\ reserve_rebalance
    /\ UNCHANGED <<reserveEVars, in_flight, coreVars, tokenVars, icbVars>>

ReentryReturn ==
    /\ in_flight # <<>>
    /\ vault_return \/ reserve_return
    /\ UNCHANGED <<coreVars, tokenVars, icbVars>>

ReentryFail ==
    /\ in_flight # <<>>
    /\ transfer_failed
    /\ UNCHANGED <<coreVars, tokenVars, icbVars>>

ReentryNext ==
    \/ ReentryEnterVault \/ ReentryEnterReserve
    \/ ReentryRebalanceVault \/ ReentryRebalanceReserve
    \/ ReentryReturn \/ ReentryFail \/ ReserveTick

ReentrySpec == ReserveSpecInit /\ [][ReentryNext]_vars

(***************************************************************************)
(* Specification of failing instructions: the reserve instructions in      *)
(* progress, beside burns that roll the epoch over before they fail.       *)
(***************************************************************************)
AtomicityBurnIcu ==
    /\ \E amount \in AtomicityBurnAmounts : icu_burn_icu(amount)
    /\ UNCHANGED <<aruVars, coreVars, reserveVars, icbVars>>

AtomicityNext == ReentryNext \/ AtomicityBurnIcu

AtomicitySpec == ReserveSpecInit /\ [][AtomicityNext]_vars

(***************************************************************************)
(* Specification of governance and the circuit breaker.                    *)
(***************************************************************************)
GovRegister ==
    /\ \E a \in Agents : core_register_agent(a, MIN_STAKE)
    /\ UNCHANGED <<tokenVars, reserveVars, icbVars>>

GovCreateProposal ==
    /\ Len(proposals) < MaxProposals
    /\ \E vp \in VotingPeriods, len \in ParamsLens : core_create_proposal(vp, len)
    /\ UNCHANGED <<tokenVars, reserveVars, icbVars>>

GovVote ==
    /\ \E a \in Agents, id \in 0..(Len(proposals) - 1), vote_yes \in BOOLEAN,
          stake \in CoreStakeAmounts :
          /\ vote_on_proposal_err(a, id) = Ok
               => At(proposals, id).yes_stake + At(proposals, id).no_stake
                    + stake <= MaxTally
          /\ core_vote_on_proposal(a, id, vote_yes, stake)
    /\ UNCHANGED <<tokenVars, reserveVars, icbVars>>

GovTrigger ==
    /\ \E a \in Agents : core_trigger_circuit_breaker(a)
    /\ UNCHANGED <<tokenVars, reserveVars, icbVars>>

GovBreaker ==
    /\ \E signer \in Signers : icb_activate_circuit_breaker(signer)
    /\ UNCHANGED <<coreVars, tokenVars, reserveVars>>

GovIcbCreateProposal ==
    /\ Cardinality(DOMAIN icb_proposals) < MaxProposals
    /\ \E d \in Durations : icb_create_proposal(d)
    /\ UNCHANGED <<coreVars, tokenVars, reserveVars>>

GovIcbVote ==
    /\ \E a \in Agents, id \in DOMAIN icb_proposals, prediction \in BOOLEAN,
          stake \in IcbStakeAmounts :
          icb_vote_on_proposal(a, id, prediction, stake)
    /\ UNCHANGED <<coreVars, tokenVars, reserveVars>>

GovExecute ==
    /\ \E id \in DOMAIN icb_proposals : icb_execute_proposal(id)
    /\ UNCHANGED <<coreVars, tokenVars, reserveVars>>

GovTick ==
    /\ \E d \in GovSteps : Tick(d, GovHorizon)
    /\ UNCHANGED <<coreVars, tokenVars, reserveVars, icbVars>>

GovNext ==
    \/ GovRegister \/ GovCreateProposal \/ GovVote
    \/ GovIcbCreateProposal \/ GovIcbVote \/ GovExecute
    \/ GovTick

GovSpec == Init /\ [][GovNext]_vars

(***************************************************************************)
(* Specification of quadratic voting in ars-core: votes with stakes from   *)
(* the whole u64 range, tallies inside u64.                                *)
(***************************************************************************)
PowerVote ==
    /\ \E a \in Agents, id \in 0..(Len(proposals) - 1), vote_yes \in BOOLEAN,
          stake \in PowerStakeAmounts :
          /\ vote_on_proposal_err(a, id) = Ok
               => At(proposals, id).yes_stake + At(proposals, id).no_stake
                    + stake <= U64Max
          /\ core_vote_on_proposal(a, id, vote_yes, stake)
    /\ UNCHANGED <<tokenVars, reserveVars, icbVars>>

PowerNext == GovRegister \/ GovCreateProposal \/ PowerVote \/ GovTick

PowerSpec == Init /\ [][PowerNext]_vars

(***************************************************************************)
(* Specification of the circuit breakers beside icb-core governance.       *)
(***************************************************************************)
BreakerNext ==
    \/ GovRegister \/ GovTrigger \/ GovBreaker
    \/ GovIcbCreateProposal \/ GovIcbVote \/ GovExecute
    \/ GovTick

BreakerSpec == Init /\ [][BreakerNext]_vars

(***************************************************************************)
(* Specification of participation in ars-core: agents register, are        *)
(* slashed below the floor, submit to the oracle and vote.                 *)
(***************************************************************************)
ParticipationSlash ==
    /\ \E a \in Agents, amt \in SlashAmounts :
          /\ agent_registry[a].reputation_score
                > -(MaxSlashes * SLASH_REPUTATION_PENALTY)
          /\ core_slash_agent(global_state.authority, a, amt)
    /\ UNCHANGED <<tokenVars, reserveVars, icbVars>>

ParticipationSubmit ==
    /\ \E a \in Agents, v \in ParticipationIliValues :
          core_submit_ili_update(a, v, now)
    /\ UNCHANGED <<tokenVars, reserveVars, icbVars>>

ParticipationNext ==
    \/ GovRegister \/ ParticipationSlash \/ ParticipationSubmit
    \/ GovCreateProposal \/ GovVote \/ GovTick

ParticipationSpec == Init /\ [][ParticipationNext]_vars

(***************************************************************************)
(* Specification of the creation of proposals in ars-core and icb-core,    *)
(* beside the icb-core circuit breaker.                                    *)
(***************************************************************************)
ProposalCreate ==
    /\ Len(proposals) < MaxCreated
    /\ \E vp \in ProposalPeriods, len \in ParamsLens :
          core_create_proposal(vp, len)
    /\ UNCHANGED <<tokenVars, reserveVars, icbVars>>

ProposalIcbCreate ==
    /\ Cardinality(DOMAIN icb_proposals) < MaxCreated
    /\ \E d \in ProposalPeriods : icb_create_proposal(d)
    /\ UNCHANGED <<coreVars, tokenVars, reserveVars>>

ProposalBreaker ==
    /\ icb_activate_circuit_breaker(icb_global_state.authority)
    /\ UNCHANGED <<coreVars, tokenVars, reserveVars>>

ProposalTick ==
    /\ \E d \in ProposalSteps : Tick(d, ProposalHorizon)
    /\ UNCHANGED <<coreVars, tokenVars, reserveVars, icbVars>>

ProposalNext ==
    ProposalCreate \/ ProposalIcbCreate \/ ProposalBreaker \/ ProposalTick

ProposalSpec == Init /\ [][ProposalNext]_vars

(***************************************************************************)
(* Specification of the two-phase rotation of the ars-core authority,      *)
(* beside the registration and the slashing of agents.                     *)
(***************************************************************************)
AdminInitiate ==
    /\ \E signer \in AdminKeys, new_authority \in AdminKeys :
          core_initiate_admin_transfer(signer, new_authority)
    /\ UNCHANGED <<tokenVars, reserveVars, icbVars>>

AdminExecute ==
    /\ core_execute_admin_transfer
    /\ UNCHANGED <<tokenVars, reserveVars, icbVars>>

AdminTick ==
    /\ \E d \in AdminSteps : Tick(d, AdminHorizon)
    /\ UNCHANGED <<coreVars, tokenVars, reserveVars, icbVars>>

\* slash_agent, the instruction that answers to the authority alone.
AdminSlash ==
    /\ \E sg \in AdminKeys, a \in Agents, amt \in SlashAmounts :
          /\ agent_registry[a].reputation_score
                > -(MaxSlashes * SLASH_REPUTATION_PENALTY)
          /\ core_slash_agent(sg, a, amt)
    /\ UNCHANGED <<tokenVars, reserveVars, icbVars>>

AdminNext ==
    AdminInitiate \/ AdminExecute \/ GovRegister \/ AdminSlash \/ AdminTick

AdminSpec == Init /\ [][AdminNext]_vars

(***************************************************************************)
(* Specification of reputation in ars-core: agents are slashed again and   *)
(* again, and try to trip the circuit breaker.                             *)
(***************************************************************************)
ReputationSlash ==
    /\ \E signer \in Signers, a \in Agents, amt \in ReputationSlashAmounts :
          /\ agent_registry[a].slashed_amount + amt <= MaxSlashes
          /\ core_slash_agent(signer, a, amt)
    /\ UNCHANGED <<tokenVars, reserveVars, icbVars>>

ReputationNext == GovRegister \/ ReputationSlash \/ GovTrigger

ReputationSpec == Init /\ [][ReputationNext]_vars

(***************************************************************************)
(* Claims about the oracle (checked under OracleSpec).                     *)
(***************************************************************************)
\* How many entries of s are below / at most x.
RECURSIVE CountBelow(_, _)
CountBelow(s, x) ==
    IF s = <<>> THEN 0
    ELSE (IF Head(s) < x THEN 1 ELSE 0) + CountBelow(Tail(s), x)

RECURSIVE CountAtMost(_, _)
CountAtMost(s, x) ==
    IF s = <<>> THEN 0
    ELSE (IF Head(s) <= x THEN 1 ELSE 0) + CountAtMost(Tail(s), x)

\* The k-th smallest entry of s (k from 0), by rank and without sorting.
KthSmallest(s, k) ==
    CHOOSE x \in {s[i] : i \in 1..Len(s)} :
        CountBelow(s, x) <= k /\ CountAtMost(s, x) > k

\* The median as the claim states it.
StatedMedian(s) ==
    IF Len(s) % 2 = 1
    THEN KthSmallest(s, Len(s) \div 2)
    ELSE (KthSmallest(s, Len(s) \div 2 - 1) + KthSmallest(s, Len(s) \div 2)) \div 2

\* This step is a submit_ili_update that returned Ok.
SubmitOkStep == last'.op = "submit_ili_update" /\ last'.err = Ok

\* The pending set of this step with the submitted update appended.
SubmittedPending ==
    Append(ili_oracle.pending_updates,
           [agent |-> last'.arg.agent, ili_value |-> last'.arg.ili_value,
            timestamp |-> last'.arg.timestamp])

\* The appended pending set has at least consensus_threshold entries.
QuorumReached == Len(SubmittedPending) >= ili_oracle.consensus_threshold

\* This step committed an aggregation.
AggregationStep ==
    /\ SubmitOkStep
    /\ ili_oracle'.pending_updates = <<>>
    /\ ili_oracle'.last_update = now

\* C1: whenever a submit_ili_update brings the pending set to at least the
\* quorum size, current_ili becomes the median of exactly the values pending
\* at that moment (middle element of the sorted values for an odd count,
\* floor of the mean of the two middle elements for an even count).
C1_MedianOfPending ==
    [][(SubmitOkStep /\ QuorumReached)
         => ili_oracle'.current_ili
              = StatedMedian(PendingValues(SubmittedPending))]_vars

\* C1 witness: the third submission was 9000 and the aggregate is 200, the
\* middle of {100, 200, 9000}, not the last or the largest value.
C1_Witness ==
    /\ last.op = "submit_ili_update" /\ last.err = Ok
    /\ last.arg.ili_value = 9000
    /\ ili_oracle.pending_updates = <<>>
    /\ ili_oracle.current_ili = 200

\* C2: a submit_ili_update aggregates iff the pending set with the new
\* submission appended has size >= consensus_threshold; the pending set is
\* empty right after an aggregation, so between instructions it holds fewer
\* than quorum entries and never more than its capacity of 10; a submission
\* that does not reach quorum only appends, leaving current_ili and
\* last_update as they were.
PendingBelowQuorum ==
    /\ Len(ili_oracle.pending_updates) < ili_oracle.consensus_threshold
    /\ Len(ili_oracle.pending_updates) <= MAX_PENDING_UPDATES

C2_AggregatesIffQuorum ==
    /\ PendingBelowQuorum
    /\ [][/\ PendingBelowQuorum'
          /\ AggregationStep <=> (SubmitOkStep /\ QuorumReached)
          /\ (SubmitOkStep /\ ~QuorumReached)
               => /\ ili_oracle'.pending_updates = SubmittedPending
                  /\ ili_oracle'.current_ili = ili_oracle.current_ili
                  /\ ili_oracle'.last_update = ili_oracle.last_update
          /\ (last'.op = "submit_ili_update" /\ last'.err # Ok)
               => ili_oracle' = ili_oracle]_vars

\* C2 witness: after an aggregation (current_ili set, pending empty) a
\* further submission is pending and has not changed the aggregate.
C2_Witness ==
    /\ last.op = "submit_ili_update" /\ last.err = Ok
    /\ Len(ili_oracle.pending_updates) = 2
    /\ ili_oracle.current_ili = 200
    /\ ili_oracle.last_update > 0

\* C3: two consecutive aggregations are committed at least update_interval
\* seconds apart; a submission that reaches quorum while
\* now < last_update + update_interval is accepted into the pending set but
\* commits no new aggregated value.
C3_AggregationRespectsInterval ==
    [][/\ AggregationStep
            => now >= ili_oracle.last_update + ili_oracle.update_interval
       /\ (SubmitOkStep /\ QuorumReached
             /\ now < ili_oracle.last_update + ili_oracle.update_interval)
            => /\ ili_oracle'.pending_updates = SubmittedPending
               /\ ili_oracle'.current_ili = ili_oracle.current_ili
               /\ ili_oracle'.last_update = ili_oracle.last_update]_vars

(***************************************************************************)
(* Claims about the supply controllers (checked under TokenSpec).          *)
(***************************************************************************)
\* floor(S * cap_bps / 10000)
FloorCap(S, bps) == (S * bps) \div 10000

\* The supply at the start of the epoch a burn_icu issued now falls in, and
\* what has been burned in that epoch so far: an elapsed window means the
\* burn opens a new epoch.
IcuEpochSupply ==
    IF now >= token_state.epoch_start_time + token_state.epoch_duration
    THEN mint_supply ELSE token_state.total_supply_at_epoch_start

IcuEpochBurned ==
    IF now >= token_state.epoch_start_time + token_state.epoch_duration
    THEN 0 ELSE token_state.epoch_burned

EpochTotalsWithinCaps ==
    /\ mint_state.epoch_minted
         <= FloorCap(aru_epoch_supply, mint_state.mint_cap_per_epoch_bps)
    /\ mint_state.epoch_burned
         <= FloorCap(aru_epoch_supply, mint_state.burn_cap_per_epoch_bps)
    /\ token_state.epoch_minted
         <= FloorCap(token_state.total_supply_at_epoch_start,
                     token_state.mint_burn_cap_bps)
    /\ token_state.epoch_burned
         <= FloorCap(token_state.total_supply_at_epoch_start,
                     token_state.mint_burn_cap_bps)

\* The epoch-cumulative total this step's mint or burn asks for, and the cap
\* it is measured against.
RequestedTotal ==
    CASE last'.op = "mint_aru" -> mint_state.epoch_minted + last'.arg.amount
      [] last'.op = "burn_aru" -> mint_state.epoch_burned + last'.arg.amount
      [] last'.op = "burn_icu" -> IcuEpochBurned + last'.arg.amount
      [] OTHER -> 0

RequestedCap ==
    CASE last'.op = "mint_aru" ->
           FloorCap(aru_epoch_supply, mint_state.mint_cap_per_epoch_bps)
      [] last'.op = "burn_aru" ->
           FloorCap(aru_epoch_supply, mint_state.burn_cap_per_epoch_bps)
      [] last'.op = "burn_icu" ->
           FloorCap(IcuEpochSupply, token_state.mint_burn_cap_bps)
      [] OTHER -> 0

CapError == IF last'.op = "mint_aru" THEN "MintCapExceeded" ELSE "BurnCapExceeded"

\* C4 as stated: in every reachable state epoch_minted and epoch_burned are
\* at most floor(S * cap_bps / 10000), S the supply when the current epoch
\* started, and a mint (burn) that would push the epoch total above the cap
\* is rejected with MintCapExceeded (BurnCapExceeded).
C4_OverCapRejectedWithCapError ==
    /\ EpochTotalsWithinCaps
    /\ [][/\ EpochTotalsWithinCaps'
          /\ RequestedTotal > RequestedCap
               => /\ last'.err = CapError
                  /\ UNCHANGED tokenVars]_vars

\* C4 amended: the caps hold in every reachable state, and a mint (burn)
\* that would push the epoch total above the cap is rejected and changes
\* nothing; the error is MintCapExceeded (BurnCapExceeded) when the requested
\* total fits in a u64 and ArithmeticOverflow when it does not.
C4_OverCapRejected ==
    /\ EpochTotalsWithinCaps
    /\ [][/\ EpochTotalsWithinCaps'
          /\ RequestedTotal > RequestedCap
               => /\ last'.err = IF RequestedTotal > U64Max
                                 THEN "ArithmeticOverflow" ELSE CapError
                  /\ UNCHANGED tokenVars]_vars

\* C4 witness: after a burn has counted against the epoch's cap, a further
\* burn that would exceed the cap has been rejected with BurnCapExceeded.
C4_Witness ==
    /\ last.op = "burn_icu" /\ last.err = "BurnCapExceeded"
    /\ token_state.epoch_burned > 0
    /\ token_state.epoch_burned + last.arg.amount
         > FloorCap(token_state.total_supply_at_epoch_start,
                    token_state.mint_burn_cap_bps)

(***************************************************************************)
(* Claims about the reserve vaults (checked under ReserveSpec).            *)
(***************************************************************************)
\* The vault a withdraw step acts on: its token balance, value, liabilities
\* and configured minimum ratio, all before the step.
WithdrawnVault ==
    IF last'.op = "reserve_withdraw"
    THEN [balance |-> reserve_token_balance,
          value |-> reserve_vault.total_value_usd,
          liabilities |-> reserve_vault.liabilities_usd,
          minimum |-> reserve_vault.min_vhr]
    ELSE [balance |-> vault_token_balance,
          value |-> vault.total_value_usd,
          liabilities |-> vault.liabilities_usd,
          minimum |-> vault.rebalance_threshold_bps]

\* The ratio of (value - amount) to liabilities, in basis points, is below
\* the minimum; without liabilities no ratio is below it.
PostWithdrawalRatioTooLow ==
    /\ WithdrawnVault.liabilities > 0
    /\ ((WithdrawnVault.value - last'.arg.amount) * 10000)
          \div WithdrawnVault.liabilities < WithdrawnVault.minimum

InsufficientBalanceErrors == {"InsufficientBalance", "InsufficientVaultBalance"}
HealthRatioTooLowErrors == {"VHRTooLow", "VHRBelowThreshold"}

\* C5: a withdraw of a positive amount within the vault's value fails with
\* InsufficientBalance when the amount exceeds the vault's token balance,
\* and otherwise fails with HealthRatioTooLow exactly when the ratio of
\* (value - amount) to liabilities is below the configured minimum; a failed
\* withdraw moves no tokens and leaves value, liabilities and ratio as they
\* were; a withdraw whose post-withdrawal ratio is at or above the minimum
\* succeeds.
C5_WithdrawChecksPostRatio ==
    [][(/\ last'.op \in {"reserve_withdraw", "vault_withdraw"}
        /\ last'.arg.amount > 0
        /\ last'.arg.amount <= WithdrawnVault.value)
         => /\ last'.arg.amount > WithdrawnVault.balance
                 => last'.err \in InsufficientBalanceErrors
            /\ last'.arg.amount <= WithdrawnVault.balance
                 => /\ last'.err \in HealthRatioTooLowErrors
                         <=> PostWithdrawalRatioTooLow
                    /\ ~PostWithdrawalRatioTooLow => last'.err = Ok
            /\ last'.err # Ok => UNCHANGED reserveVars]_vars

\* The ratio of value to liabilities of v, in basis points, is at least t.
RatioAtLeast(v, t) ==
    \/ v.liabilities_usd = 0
    \/ (v.total_value_usd * 10000) \div v.liabilities_usd >= t

AnyBreakerActive ==
    \/ global_state.circuit_breaker_active
    \/ icb_global_state.circuit_breaker_active

ReserveOps ==
    {"reserve_deposit", "reserve_withdraw", "reserve_rebalance",
     "vault_deposit", "vault_withdraw", "vault_update_vhr", "vault_rebalance"}

\* C6: after every successful reserve operation (deposit, withdraw,
\* update_vhr, rebalance) the ratio of the vault's value to its liabilities
\* is at least the 150% threshold (15000 bps), or the circuit breaker is
\* active.
C6_RatioAtLeastThresholdOrBreaker ==
    (last.op \in ReserveOps /\ last.err = Ok)
      => \/ /\ RatioAtLeast(reserve_vault, VHR_WARNING_THRESHOLD)
            /\ RatioAtLeast(vault, VHR_WARNING_THRESHOLD)
         \/ AnyBreakerActive

(***************************************************************************)
(* Claims about the circuit breaker (checked under BreakerSpec).           *)
(***************************************************************************)
ValueMovingOps ==
    {"submit_ili_update", "create_proposal", "vote_on_proposal",
     "icb_create_proposal", "icb_vote_on_proposal", "execute_proposal",
     "reserve_deposit", "reserve_withdraw", "reserve_rebalance",
     "vault_deposit", "vault_withdraw", "vault_rebalance",
     "mint_aru", "burn_aru", "burn_icu"}

\* C7: while the circuit breaker is active, every value-moving operation
\* (oracle submit, create_proposal, vote, execute_proposal, reserve
\* deposit/withdraw/rebalance, token mint/burn) fails with
\* CircuitBreakerActive and changes no state.
C7_BreakerBlocksValueMovingOps ==
    [][(AnyBreakerActive /\ last'.op \in ValueMovingOps)
         => /\ last'.err = "CircuitBreakerActive"
            /\ UNCHANGED <<coreVars, tokenVars, reserveVars, icbVars>>]_vars

\* C8: once tripped at time t the circuit breaker stays active in every
\* state whose clock is before t + 24h; nothing clears it before that
\* deadline.
C8_BreakerHeldUntilDeadline ==
    [][/\ (/\ icb_global_state.circuit_breaker_active
           /\ now' < breaker_tripped_at + CIRCUIT_BREAKER_DELAY)
            => icb_global_state'.circuit_breaker_active
       /\ (/\ global_state.circuit_breaker_active
           /\ now' < global_state.circuit_breaker_timelock)
            => global_state'.circuit_breaker_active]_vars

(***************************************************************************)
(* Claims about governance (checked under GovSpec).                        *)
(***************************************************************************)
VoteOps == {"vote_on_proposal", "icb_vote_on_proposal"}

\* The proposal a vote step addresses, before and after the step.
VotedProposal ==
    IF last'.op = "vote_on_proposal" THEN At(proposals, last'.arg.id)
    ELSE icb_proposals[last'.arg.id]

VotedProposalAfter ==
    IF last'.op = "vote_on_proposal" THEN At(proposals', last'.arg.id)
    ELSE icb_proposals'[last'.arg.id]

\* The proposal is Active and the clock is inside its voting window.
VoteWindowOpen ==
    /\ VotedProposal.status = "Active"
    /\ VotedProposal.start_time <= now
    /\ now < VotedProposal.end_time

\* The voter of this step has a vote record on the proposal already.
VoterHasRecord ==
    /\ last'.op = "icb_vote_on_proposal"
    /\ <<last'.arg.id, last'.arg.agent>> \in DOMAIN icb_vote_records

\* C9 as stated: a vote changes a proposal's tallies only if the proposal is
\* Active and start_time <= now < end_time; a vote outside the window or on
\* a proposal that is not Active fails with ProposalNotActive and leaves
\* the tallies unchanged.
C9_VoteOutsideWindowNotActive ==
    [][last'.op \in VoteOps
         => /\ VotedProposalAfter # VotedProposal => VoteWindowOpen
            /\ ~VoteWindowOpen
                 => /\ last'.err = "ProposalNotActive"
                    /\ VotedProposalAfter = VotedProposal]_vars

\* C9 amended: a vote changes a proposal's tallies only if the proposal is
\* Active and start_time <= now < end_time; a vote outside the window or on
\* a proposal that is not Active fails and leaves the tallies unchanged,
\* with ProposalNotActive when it stakes a positive amount and its voter
\* has no vote record on the proposal yet.
C9_VoteOutsideWindowRejected ==
    [][last'.op \in VoteOps
         => /\ VotedProposalAfter # VotedProposal => VoteWindowOpen
            /\ ~VoteWindowOpen
                 => /\ last'.err # Ok
                    /\ VotedProposalAfter = VotedProposal
                    /\ (last'.arg.stake_amount > 0 /\ ~VoterHasRecord)
                         => last'.err = "ProposalNotActive"]_vars

\* C9 witness: a proposal that has collected votes is still Active when a
\* vote with a positive stake arrives at its end_time and is turned down
\* with ProposalNotActive.
C9_Witness ==
    /\ last.op = "icb_vote_on_proposal" /\ last.err = "ProposalNotActive"
    /\ last.arg.stake_amount > 0
    /\ icb_proposals[last.arg.id].status = "Active"
    /\ icb_proposals[last.arg.id].yes_stake > 0
    /\ now >= icb_proposals[last.arg.id].end_time

RejectedStatuses == {"Rejected", "Failed"}

\* C10: the status of a proposal changes only through execute_proposal, only
\* from Active and only when now >= end_time (an earlier call fails with
\* ProposalStillActive and changes nothing); the execution moves it to
\* Executed if yes has the majority and to Rejected otherwise; once Executed
\* or Rejected, nothing changes its status or tallies again.
C10_StatusOnlyByExecution ==
    [][\A id \in DOMAIN icb_proposals :
         LET proposal == icb_proposals[id]
             after == icb_proposals'[id]
             executing == last'.op = "execute_proposal" /\ last'.arg.id = id
         IN
         /\ after.status # proposal.status
              => /\ executing
                 /\ proposal.status = "Active"
                 /\ now >= proposal.end_time
         /\ (executing /\ proposal.status = "Active"
               /\ now < proposal.end_time)
              => last'.err = "ProposalStillActive" /\ after = proposal
         /\ (executing /\ proposal.status = "Active"
               /\ now >= proposal.end_time)
              => IF proposal.yes_stake > proposal.no_stake
                 THEN after.status = "Executed"
                 ELSE after.status \in RejectedStatuses
         /\ proposal.status \in {"Executed"} \cup RejectedStatuses
              => after = proposal]_vars

\* The proposal an execute_proposal step resolves, before and after the step.
ResolvedProposal == icb_proposals[last'.arg.id]

ResolvedProposalAfter == icb_proposals'[last'.arg.id]

\* C11: for every pair of raw tallies with yes_stake + no_stake > 0, an
\* execute_proposal after the window closes resolves the proposal as passed
\* if yes_stake is more than half of the total (yes_stake > no_stake) and as
\* rejected if it is less than half; the computed yes share in bps is
\* > 5000 whenever yes_stake > total/2 and <= 5000 whenever it is less.
C11_MajorityDecidesResolution ==
    [][(/\ last'.op = "execute_proposal"
        /\ ResolvedProposal.status = "Active"
        /\ now >= ResolvedProposal.end_time
        /\ ResolvedProposal.yes_stake + ResolvedProposal.no_stake > 0)
         => /\ ResolvedProposal.yes_stake > ResolvedProposal.no_stake
                 => /\ yes_percentage(ResolvedProposal) > 5000
                    /\ ResolvedProposalAfter.status = "Executed"
            /\ ResolvedProposal.yes_stake < ResolvedProposal.no_stake
                 => /\ yes_percentage(ResolvedProposal) <= 5000
                    /\ ResolvedProposalAfter.status \in RejectedStatuses]_vars

\* The stake of a vote step and the voting power the step credits.
VotedStake == last'.arg.stake_amount

CreditedPower ==
    (VotedProposalAfter.quadratic_yes + VotedProposalAfter.quadratic_no)
      - (VotedProposal.quadratic_yes + VotedProposal.quadratic_no)

\* The power floor(sqrt(s)) the claim gives a stake s.
StatedPower(s) == CHOOSE p \in 0..s : p * p <= s /\ (p + 1) * (p + 1) > s

\* C12: for every stake amount s passed to vote, the voting power credited
\* is floor(sqrt(s)), the largest integer p with p*p <= s, and p <= s; for a
\* large stake and a small stake (here: at least ten times smaller) the
\* ratio of their voting powers is smaller than the ratio of their stakes.
C12_PowerIsFloorSqrt ==
    [][(last'.op = "vote_on_proposal" /\ last'.err = Ok)
         => /\ CreditedPower = StatedPower(VotedStake)
            /\ CreditedPower * CreditedPower <= VotedStake
            /\ CreditedPower <= VotedStake
            /\ \A small \in PowerStakeAmounts :
                 (small > 0 /\ VotedStake >= 10 * small)
                   => CreditedPower \div voting_power(small)
                        < VotedStake \div small]_vars

(***************************************************************************)
(* Claims about the agents behind an aggregation (checked under            *)
(* OracleSpec).                                                            *)
(***************************************************************************)
\* The agents with a submission in the pending set that is aggregated.
SubmittingAgents ==
    {SubmittedPending[i].agent : i \in 1..Len(SubmittedPending)}

\* C13: aggregation occurs only when the pending set contains submissions
\* from at least quorum distinct agents; repeated submissions by one agent
\* count once toward the quorum.
C13_QuorumOfDistinctAgents ==
    [][AggregationStep
         => Cardinality(SubmittingAgents) >= ili_oracle.consensus_threshold]_vars

\* The smallest and the largest of the values at the positions `idx`.
MinOf(values, idx) ==
    CHOOSE v \in {values[i] : i \in idx} : \A i \in idx : v <= values[i]

MaxOf(values, idx) ==
    CHOOSE v \in {values[i] : i \in idx} : \A i \in idx : v >= values[i]

\* C14: when aggregation fires on a pending set in which a strict minority
\* (fewer than half) of the submissions carry arbitrary adversarial values,
\* the aggregated value lies between the smallest and the largest value of
\* the remaining, honest submissions.
C14_MinorityCannotMoveMedian ==
    [][AggregationStep
         => LET values == PendingValues(SubmittedPending)
                all == 1..Len(values)
            IN  \A adversarial \in SUBSET all :
                  2 * Cardinality(adversarial) < Len(values)
                    => /\ MinOf(values, all \ adversarial)
                            <= ili_oracle'.current_ili
                       /\ ili_oracle'.current_ili
                            <= MaxOf(values, all \ adversarial)]_vars

\* C14 witness: an aggregation whose last submission, 9000, is far above the
\* other two, which agree on 100; the aggregate is 100.
C14_Witness ==
    /\ last.op = "submit_ili_update" /\ last.err = Ok
    /\ last.arg.ili_value = 9000
    /\ ili_oracle.pending_updates = <<>>
    /\ ili_oracle.last_update = now
    /\ ili_oracle.current_ili = 100

\* The health ratio as the claim states it.
StatedRatio(value, liabilities) ==
    IF liabilities = 0 THEN U16_MAX ELSE (value * 10000) \div liabilities

\* The operations that store a freshly computed health ratio.
RatioOps ==
    {"reserve_deposit", "reserve_withdraw", "reserve_rebalance",
     "vault_withdraw", "vault_update_vhr"}

\* C15: for all value and liabilities the health-ratio function returns the
\* maximum sentinel when liabilities = 0 and otherwise exactly
\* floor(value * 10000 / liabilities) bps, with no truncation or wrap-around:
\* every operation that computes the ratio stores that number.
C15_RatioIsExactFloor ==
    [][(last'.op \in RatioOps /\ last'.err = Ok)
         => /\ reserve_vault'.vhr
                 = StatedRatio(reserve_vault'.total_value_usd,
                               reserve_vault'.liabilities_usd)
            /\ last'.op \in {"vault_withdraw", "vault_update_vhr"}
                 => vault'.vhr = StatedRatio(vault'.total_value_usd,
                                             vault'.liabilities_usd)]_vars

(***************************************************************************)
(* Claims about the epochs of the supply controller (checked under         *)
(* TokenSpec).                                                             *)
(***************************************************************************)
\* The epoch window of the ars-protocol mint state has elapsed.
AruEpochEnded == now >= mint_state.epoch_start + mint_state.epoch_duration

\* C16: a mint or burn invoked when now >= epoch_start + epoch_duration
\* first performs the epoch rollover (archives an EpochRecord for the ended
\* epoch, resets both counters to 0, snapshots the current supply, advances
\* the epoch number) and only then evaluates the cap: a successful one
\* leaves the next epoch, started now, with only its own amount counted.
C16_RolloverBeforeCap ==
    [][/\ (last'.op \in {"mint_aru", "burn_aru"} /\ AruEpochEnded
             /\ last'.err = Ok)
            => /\ mint_state'.current_epoch = mint_state.current_epoch + 1
               /\ mint_state'.epoch_start = now
               /\ mint_state'.epoch_minted + mint_state'.epoch_burned
                    = last'.arg.amount
               /\ Len(epoch_history') = Len(epoch_history) + 1
               /\ aru_epoch_supply' = mint_state.total_supply
       /\ (last'.op = "burn_icu" /\ EpochEnded(token_state)
             /\ last'.err = Ok)
            => /\ token_state'.current_epoch = token_state.current_epoch + 1
               /\ token_state'.epoch_start_time = now
               /\ token_state'.epoch_minted = 0
               /\ token_state'.epoch_burned = last'.arg.amount
               /\ token_state'.total_supply_at_epoch_start = mint_supply]_vars

\* One of the two epoch counters went down in this step.
AruCountersReset ==
    \/ mint_state'.epoch_minted < mint_state.epoch_minted
    \/ mint_state'.epoch_burned < mint_state.epoch_burned

IcuCountersReset ==
    \/ token_state'.epoch_minted < token_state.epoch_minted
    \/ token_state'.epoch_burned < token_state.epoch_burned

StartNewEpochOps == {"start_new_epoch", "icu_start_new_epoch"}

\* C17: epoch_minted and epoch_burned are reset, and the epoch number
\* advanced, only by a rollover at a time now >= epoch_start +
\* epoch_duration; start_new_epoch before the window has elapsed fails with
\* EpochNotComplete and changes nothing; each rollover advances the epoch
\* number by exactly 1 and sets epoch_start to now.
C17_ResetOnlyByRollover ==
    [][/\ (AruCountersReset
             \/ mint_state'.current_epoch # mint_state.current_epoch)
            => /\ AruEpochEnded
               /\ mint_state'.current_epoch = mint_state.current_epoch + 1
               /\ mint_state'.epoch_start = now
       /\ (IcuCountersReset
             \/ token_state'.current_epoch # token_state.current_epoch)
            => /\ EpochEnded(token_state)
               /\ token_state'.current_epoch = token_state.current_epoch + 1
               /\ token_state'.epoch_start_time = now
       /\ (last'.op \in StartNewEpochOps
             /\ ~(IF last'.op = "start_new_epoch" THEN AruEpochEnded
                  ELSE EpochEnded(token_state)))
            => /\ last'.err = "EpochNotComplete"
               /\ UNCHANGED tokenVars]_vars

(***************************************************************************)
(* Claims about the agent registry and the trip of the circuit breaker     *)
(* (checked under RegistrySpec).                                           *)
(***************************************************************************)
\* The agent a step addresses, before and after the step.
AddressedAgent == agent_registry[last'.arg.agent]

AddressedAgentAfter == agent_registry'[last'.arg.agent]

\* C18: trigger_circuit_breaker fails with InsufficientReputation, changing
\* nothing, unless the calling agent's reputation reaches past the fixed
\* floor (is at least 100); on success it sets circuit_breaker_active = true
\* and the cool-down deadline to now + 24h and changes nothing else.
C18_TripNeedsReputation ==
    [][last'.op = "trigger_circuit_breaker"
         => /\ AddressedAgent.reputation_score < MIN_TRIGGER_REPUTATION
                 => /\ last'.err = "InsufficientReputation"
                    /\ UNCHANGED <<coreVars, tokenVars, reserveVars, icbVars>>
            /\ last'.err = Ok
                 => /\ AddressedAgent.reputation_score >= MIN_TRIGGER_REPUTATION
                    /\ global_state' =
                         [global_state EXCEPT
                            !.circuit_breaker_active = TRUE,
                            !.circuit_breaker_timelock =
                                now + CIRCUIT_BREAKER_DELAY]
                    /\ UNCHANGED <<ili_oracle, agent_registry, proposals,
                                   tokenVars, reserveVars, icbVars>>]_vars

\* C18 witness: an agent that was slashed (reputation -50) has just tried to
\* trip the breaker and was turned away; the breaker is inactive.
C18_Witness ==
    /\ last.op = "trigger_circuit_breaker"
    /\ last.err = "InsufficientReputation"
    /\ agent_registry[last.arg.agent].reputation_score = -SLASH_REPUTATION_PENALTY
    /\ ~global_state.circuit_breaker_active
    /\ global_state.circuit_breaker_timelock = 0

\* The four bands of the tier, lowest first, each with its lowest stake.
TierBands ==
    << [tier |-> "Bronze", from |-> MIN_STAKE],
       [tier |-> "Silver", from |-> SilverMinStake],
       [tier |-> "Gold", from |-> GoldMinStake],
       [tier |-> "Platinum", from |-> PlatinumMinStake] >>

\* The tier as a step function: the highest band the stake reaches.
StatedTier(stake) ==
    LET reached == {i \in 1..Len(TierBands) : stake >= TierBands[i].from}
        top == CHOOSE i \in reached : \A j \in reached : j <= i
    IN  TierBands[top].tier

\* C19: the registration of a new agent fails with InsufficientStake,
\* creating no agent record, for every stake below the registration floor
\* (100_000_000), floor - 1 included; for every stake >= floor it creates an
\* active agent with reputation 0, slashed total 0 and the tier the step
\* function gives the stake, the lowest tier for a stake exactly at the
\* floor.
C19_RegisterChecksFloor ==
    [][(last'.op = "register_agent" /\ ~AddressedAgent.registered)
         => LET stake == last'.arg.stake_amount IN
            /\ stake < MIN_STAKE
                 => /\ last'.err = "InsufficientStake"
                    /\ UNCHANGED agent_registry
            /\ stake >= MIN_STAKE
                 => /\ last'.err = Ok
                    /\ AddressedAgentAfter.registered
                    /\ AddressedAgentAfter.is_active
                    /\ AddressedAgentAfter.stake_amount = stake
                    /\ AddressedAgentAfter.reputation_score = 0
                    /\ AddressedAgentAfter.slashed_amount = 0
                    /\ AddressedAgentAfter.agent_tier = StatedTier(stake)
                    /\ stake = MIN_STAKE
                         => AddressedAgentAfter.agent_tier = TierBands[1].tier
                    /\ \A other \in Agents \ {last'.arg.agent} :
                         agent_registry'[other] = agent_registry[other]]_vars

\* C19 witness: one agent has just registered with a stake exactly at the
\* floor and is an active Bronze agent; the other agent has no record.
C19_Witness ==
    /\ last.op = "register_agent" /\ last.err = Ok
    /\ last.arg.stake_amount = MIN_STAKE
    /\ agent_registry[last.arg.agent].is_active
    /\ agent_registry[last.arg.agent].agent_tier = "Bronze"
    /\ \E other \in Agents : ~agent_registry[other].registered

\* The error of a slash whose amount exceeds the stake, in the claim's and
\* in the program's name.
SlashExceedsStakeErrors == {"SlashExceedsStake", "SlashAmountTooHigh"}

\* C20: slash fails with Unauthorized unless the signer is the current
\* protocol authority, and fails with SlashExceedsStake when amount > stake,
\* in both cases leaving the agent unchanged; on success stake decreases by
\* amount and slashed_total increases by amount, so that stake +
\* slashed_total always equals the stake the agent registered with.
C20_SlashKeepsStakeAccounted ==
    [][/\ last'.op = "slash_agent"
            => LET amount == last'.arg.slash_amount
                   authorized == last'.arg.signer = global_state.authority
               IN
               /\ ~authorized
                    => /\ last'.err = "Unauthorized"
                       /\ UNCHANGED agent_registry
               /\ (authorized /\ amount > AddressedAgent.stake_amount)
                    => /\ last'.err \in SlashExceedsStakeErrors
                       /\ UNCHANGED agent_registry
               /\ (authorized /\ amount <= AddressedAgent.stake_amount)
                    => /\ last'.err = Ok
                       /\ AddressedAgentAfter.stake_amount
                            = AddressedAgent.stake_amount - amount
                       /\ AddressedAgentAfter.slashed_amount
                            = AddressedAgent.slashed_amount + amount
       /\ \A a \in Agents :
            /\ agent_registry[a].registered
                 => agent_registry'[a].stake_amount
                      + agent_registry'[a].slashed_amount
                    = agent_registry[a].stake_amount
                      + agent_registry[a].slashed_amount
            /\ (~agent_registry[a].registered /\ agent_registry'[a].registered)
                 => agent_registry'[a].stake_amount
                      + agent_registry'[a].slashed_amount
                    = last'.arg.stake_amount]_vars

\* C20 witness: the authority has just slashed a Silver agent for the whole
\* registration floor; what is left and what was taken add up to the stake
\* the agent registered with.
C20_Witness ==
    /\ last.op = "slash_agent" /\ last.err = Ok
    /\ last.arg.slash_amount = MIN_STAKE
    /\ agent_registry[last.arg.agent].slashed_amount >= MIN_STAKE
    /\ agent_registry[last.arg.agent].stake_amount
         + agent_registry[last.arg.agent].slashed_amount = SilverMinStake


\* C21: in every reachable state every agent's tier equals the fixed
\* four-band step function applied to its current stake_amount, including
\* after any number of slashes have reduced the stake.
C21_TierFollowsStake ==
    \A a \in Agents :
        agent_registry[a].registered
          => agent_registry[a].agent_tier
               = from_stake(agent_registry[a].stake_amount)

\* C22: in every reachable state an agent with is_active = true has
\* stake_amount >= the registration floor: a slash that leaves the stake
\* below the floor deactivates the agent in the same operation, and no
\* operation reactivates an agent.  (No agent is active before the first
\* step; the formula speaks of the state every step leaves.)
C22_ActiveHasFloorStake ==
    [][/\ \A a \in Agents :
            /\ agent_registry'[a].is_active
                 => agent_registry'[a].stake_amount >= MIN_STAKE
            /\ (agent_registry[a].registered /\ ~agent_registry[a].is_active)
                 => ~agent_registry'[a].is_active
       /\ (last'.op = "slash_agent" /\ last'.err = Ok
             /\ AddressedAgentAfter.stake_amount < MIN_STAKE)
            => ~AddressedAgentAfter.is_active]_vars

\* C22 witness: an agent that registered above the floor has just been
\* slashed to below it and is no longer active, while the other agent is
\* active with a stake of at least the floor.
C22_Witness ==
    /\ last.op = "slash_agent" /\ last.err = Ok
    /\ agent_registry[last.arg.agent].stake_amount < MIN_STAKE
    /\ agent_registry[last.arg.agent].slashed_amount > 0
    /\ ~agent_registry[last.arg.agent].is_active
    /\ \E other \in Agents :
          /\ agent_registry[other].is_active
          /\ agent_registry[other].stake_amount >= MIN_STAKE

(***************************************************************************)
(* Claims about participation (checked under ParticipationSpec).           *)
(***************************************************************************)
ParticipationOps == {"submit_ili_update", "vote_on_proposal"}

\* The step is an inactive agent's submission or vote.
InactiveAgentActs ==
    /\ last'.op \in ParticipationOps
    /\ ~AddressedAgent.is_active

\* C23 as stated: an agent whose is_active flag is false can neither submit
\* to the oracle nor vote: both operations fail with AgentNotActive and
\* leave the pending set and the proposal tallies unchanged.
C23_InactiveGetsAgentNotActive ==
    [][InactiveAgentActs
         => /\ last'.err = "AgentNotActive"
            /\ UNCHANGED <<ili_oracle, proposals>>]_vars

\* C23 amended: an inactive agent can neither submit nor vote: both
\* operations fail and leave the pending set and the proposal tallies
\* unchanged; the submission fails with AgentNotActive, and so does a vote
\* cast inside the proposal's voting window (outside the window the vote
\* fails with ProposalNotActive, which is checked first).
C23_InactiveRejected ==
    [][InactiveAgentActs
         => /\ last'.err # Ok
            /\ UNCHANGED <<ili_oracle, proposals>>
            /\ last'.op = "submit_ili_update" => last'.err = "AgentNotActive"
            /\ (last'.op = "vote_on_proposal" /\ VoteWindowOpen)
                 => last'.err = "AgentNotActive"
            /\ (last'.op = "vote_on_proposal" /\ ~VoteWindowOpen)
                 => last'.err = "ProposalNotActive"]_vars

\* C23 witness: an agent slashed below the floor has just voted inside the
\* window of a proposal and was turned away with AgentNotActive, while the
\* oracle holds a pending submission.
C23_Witness ==
    /\ last.op = "vote_on_proposal" /\ last.err = "AgentNotActive"
    /\ agent_registry[last.arg.agent].slashed_amount > 0
    /\ ~agent_registry[last.arg.agent].is_active
    /\ now < At(proposals, last.arg.id).end_time
    /\ Len(ili_oracle.pending_updates) > 0

(***************************************************************************)
(* Claims about the creation of proposals (checked under ProposalSpec).    *)
(***************************************************************************)
CreateOps == {"create_proposal", "icb_create_proposal"}

\* The voting period a create_proposal step asks for.
RequestedPeriod ==
    IF last'.op = "create_proposal" THEN last'.arg.voting_period
    ELSE last'.arg.duration

\* The period lies within [1 hour, 7 days].
PeriodInRange ==
    RequestedPeriod >= MIN_VOTING_PERIOD /\ RequestedPeriod <= MAX_VOTING_PERIOD

\* Nothing but the voting period stands in the way of the creation: the
\* payload is within its bound, the proposal's address is free and the
\* icb-core breaker is off.
CreationOtherwiseValid ==
    IF last'.op = "create_proposal" THEN last'.arg.params_len <= MAX_PARAMS_LEN
    ELSE /\ now \notin DOMAIN icb_proposals
         /\ ~icb_global_state.circuit_breaker_active

\* The proposals a step has created, in either program.
CreatedProposals ==
    IF last'.op = "create_proposal"
    THEN {proposals'[i] : i \in (DOMAIN proposals') \ (DOMAIN proposals)}
    ELSE {icb_proposals'[id] :
            id \in (DOMAIN icb_proposals') \ (DOMAIN icb_proposals)}

\* The step leaves the proposals and the proposal counter as they were.
NothingCreated ==
    UNCHANGED <<proposals, icb_proposals, global_state, icb_global_state>>

\* C24: create_proposal fails with InvalidVotingPeriod, creating no proposal
\* and not advancing the proposal counter, for every voting period shorter
\* than 1 hour (3600 s) or longer than 7 days (604800 s); for every period
\* inside the range it creates an Active proposal with zero tallies and
\* window [now, now + period), so end_time > start_time.
C24_PeriodWithinHourAndWeek ==
    [][last'.op \in CreateOps
         => /\ ~PeriodInRange
                 => /\ last'.err # Ok
                    /\ NothingCreated
                    /\ CreationOtherwiseValid
                         => last'.err = "InvalidVotingPeriod"
            /\ (PeriodInRange /\ CreationOtherwiseValid)
                 => /\ last'.err = Ok
                    /\ Cardinality(CreatedProposals) = 1
                    /\ \A p \in CreatedProposals :
                         /\ p.status = "Active"
                         /\ p.yes_stake = 0 /\ p.no_stake = 0
                         /\ last'.op = "create_proposal"
                              => p.quadratic_yes = 0 /\ p.quadratic_no = 0
                         /\ p.start_time = now
                         /\ p.end_time = now + RequestedPeriod
                         /\ p.end_time > p.start_time]_vars

\* The proposals of the program a create_proposal step addresses, before and
\* after the step, as the set of their ids, and how many ids the program
\* had handed out before the step.
ProposalIds ==
    IF last'.op = "create_proposal"
    THEN {proposals[i].id : i \in DOMAIN proposals}
    ELSE {icb_proposals[id].id : id \in DOMAIN icb_proposals}

IdsHandedOut ==
    IF last'.op = "create_proposal" THEN global_state.proposal_counter
    ELSE Cardinality(DOMAIN icb_proposals)

\* C25: proposal ids are assigned sequentially: each successful
\* create_proposal gives the new proposal the current value of the proposal
\* counter and then increases the counter by exactly 1, failed creations
\* leave the counter unchanged, and no two proposals ever share an id.
C25_SequentialProposalIds ==
    [][/\ last'.op \in CreateOps
            => /\ last'.err = Ok
                    => /\ Cardinality(CreatedProposals) = 1
                       /\ \A p \in CreatedProposals :
                            /\ p.id = IdsHandedOut
                            /\ p.id \notin ProposalIds
                       /\ last'.op = "create_proposal"
                            => global_state'.proposal_counter
                                 = global_state.proposal_counter + 1
               /\ last'.err # Ok => NothingCreated
       /\ last'.op \notin CreateOps
            => global_state'.proposal_counter = global_state.proposal_counter
       /\ \A i, j \in DOMAIN proposals' :
            proposals'[i].id = proposals'[j].id => i = j
       /\ \A i, j \in DOMAIN icb_proposals' :
            icb_proposals'[i].id = icb_proposals'[j].id => i = j]_vars

(***************************************************************************)
(* Claims about the rotation of the authority (checked under AdminSpec).   *)
(***************************************************************************)
\* A transfer of the authority is pending.
TransferPending == global_state.pending_authority # None

\* C26: the protocol authority changes only through execute_admin_transfer,
\* only to the pending authority named by the most recent
\* initiate_admin_transfer (which only the current authority can call), and
\* never earlier than 48 hours after that initiate; there is at most one
\* pending transfer, and whenever none is pending pending_authority is None
\* and transfer_timelock is 0.
C26_AuthorityRotatesAfterTimelock ==
    [][/\ global_state'.authority # global_state.authority
            => /\ last'.op = "execute_admin_transfer" /\ last'.err = Ok
               /\ TransferPending
               /\ global_state'.authority = transfer_initiated.new_authority
               /\ now >= transfer_initiated.at + ADMIN_TRANSFER_DELAY
       /\ (last'.op = "execute_admin_transfer" /\ last'.err = Ok)
            => /\ TransferPending
               /\ global_state'.authority = transfer_initiated.new_authority
               /\ now >= transfer_initiated.at + ADMIN_TRANSFER_DELAY
       /\ last'.op = "initiate_admin_transfer"
            => IF last'.arg.signer = global_state.authority
               THEN /\ last'.err = Ok
                    /\ global_state'.pending_authority
                         = last'.arg.new_authority
                    /\ transfer_initiated'
                         = [new_authority |-> last'.arg.new_authority,
                            at |-> now]
               ELSE /\ last'.err = "Unauthorized"
                    /\ UNCHANGED <<global_state, transfer_initiated>>
       /\ IF global_state'.pending_authority = None
          THEN global_state'.transfer_timelock = 0
          ELSE /\ global_state'.pending_authority
                    = transfer_initiated'.new_authority
               /\ global_state'.transfer_timelock
                    = transfer_initiated'.at + ADMIN_TRANSFER_DELAY]_vars

\* C26 witness: the authority has just passed to a1, 48 hours to the second
\* after the former authority named it, and no transfer is pending.
C26_Witness ==
    /\ last.op = "execute_admin_transfer" /\ last.err = Ok
    /\ global_state.authority = "a1"
    /\ transfer_initiated.new_authority = "a1"
    /\ now = transfer_initiated.at + ADMIN_TRANSFER_DELAY
    /\ global_state.pending_authority = None
    /\ global_state.transfer_timelock = 0

(***************************************************************************)
(* Claims about rebalancing and the vault's lock (checked under            *)
(* ReserveSpec).                                                           *)
(***************************************************************************)
RebalanceOps == {"reserve_rebalance", "vault_rebalance"}

\* The vault a rebalance step addresses, before and after the step.
RebalancedVault ==
    IF last'.op = "reserve_rebalance" THEN reserve_vault ELSE vault

RebalancedVaultAfter ==
    IF last'.op = "reserve_rebalance" THEN reserve_vault' ELSE vault'

\* C27: rebalance fails with RebalanceNotNeeded, changing nothing, unless
\* the vault's current health ratio is below the rebalance-trigger
\* threshold; when it succeeds it records now as last_rebalance and
\* recomputes the ratio from value and liabilities.
C27_RebalanceOnlyBelowThreshold ==
    [][last'.op \in RebalanceOps
         => /\ ~(RebalancedVault.vhr < RebalancedVault.rebalance_threshold_bps)
                 => /\ last'.err = "RebalanceNotNeeded"
                    /\ UNCHANGED reserveVars
            /\ last'.err = Ok
                 => /\ RebalancedVaultAfter.last_rebalance = now
                    /\ RebalancedVaultAfter.vhr
                         = calculate_vhr(RebalancedVault.total_value_usd,
                                         RebalancedVault.liabilities_usd)]_vars

\* The instructions the vault's lock guards.
GuardedOps ==
    {"vault_deposit", "vault_withdraw", "vault_rebalance",
     "reserve_deposit", "reserve_withdraw", "reserve_rebalance"}

\* The step enters a guarded instruction while another instruction on the
\* same vault is inside its external call.
SecondEntry ==
    /\ in_flight # <<>>
    /\ last'.op \in GuardedOps
    /\ Len(in_flight') >= Len(in_flight)

\* Errors of the validation of the arguments, which precedes the lock.
ArgumentErrors == {"InvalidAmount", "InsufficientVaultBalance"}

\* C28: while a reserve operation on a vault is in progress (between its
\* entry and its exit, in particular during its external token-transfer
\* call), any second entry into deposit, withdraw or rebalance on the same
\* vault fails immediately with ReentrancyDetected (or at the validation of
\* its arguments, before it) and does not read or modify the partially
\* updated vault.
C28_SecondEntryRejected ==
    [][SecondEntry
         => /\ last'.err \in {"ReentrancyDetected"} \cup ArgumentErrors
            /\ UNCHANGED reserveVars]_vars

\* The step is an instruction's failure.
FailedStep == last'.err \notin {Ok, Pending}

RatioConsistent(v) ==
    v.vhr = calculate_vhr(v.total_value_usd, v.liabilities_usd)

\* C31: in every reachable state the stored vault ratio equals the ratio
\* function applied to the stored total_value_usd and liabilities_usd (the
\* maximum sentinel when liabilities are 0): initialize, deposit, withdraw,
\* update_vhr and rebalance each leave the stored ratio consistent with the
\* value and liabilities they leave behind.
C31_StoredRatioConsistent ==
    /\ RatioConsistent(reserve_vault)
    /\ RatioConsistent(vault)

(***************************************************************************)
(* Claims about the tallies of a proposal (checked under PowerSpec).       *)
(***************************************************************************)
\* The proposal of a vote step with the tallies of the voted side raised by
\* the stake and by the power p.
TalliesRaised(proposal, vote_yes, s, p) ==
    IF vote_yes
    THEN [proposal EXCEPT !.yes_stake = proposal.yes_stake + s,
                          !.quadratic_yes = proposal.quadratic_yes + p]
    ELSE [proposal EXCEPT !.no_stake = proposal.no_stake + s,
                          !.quadratic_no = proposal.quadratic_no + p]

\* C32: a successful vote with stake s on one side adds exactly s to that
\* side's raw stake tally and exactly floor(sqrt(s)) to that side's
\* quadratic tally, and leaves the other side's two tallies and every other
\* proposal field unchanged.
C32_VoteAddsStakeAndRoot ==
    [][(last'.op = "vote_on_proposal" /\ last'.err = Ok)
         => VotedProposalAfter
              = TalliesRaised(VotedProposal, last'.arg.vote_yes, VotedStake,
                              StatedPower(VotedStake))]_vars

(***************************************************************************)
(* Claims about the history of epochs (checked under TokenSpec).           *)
(***************************************************************************)
\* The supply controllers, and the supply state of each in common terms.
SupplyPrograms == {"ars-protocol/ars-token", "programs/ars-token"}

SupplyState(program) ==
    IF program = "ars-protocol/ars-token"
    THEN [current_epoch |-> mint_state.current_epoch,
          epoch_start |-> mint_state.epoch_start,
          epoch_minted |-> mint_state.epoch_minted,
          epoch_burned |-> mint_state.epoch_burned,
          total_supply |-> mint_state.total_supply]
    ELSE [current_epoch |-> token_state.current_epoch,
          epoch_start |-> token_state.epoch_start_time,
          epoch_minted |-> token_state.epoch_minted,
          epoch_burned |-> token_state.epoch_burned,
          total_supply |-> mint_supply]

\* The epoch records a supply controller holds: the EpochHistory accounts
\* of ars-protocol's ars-token; programs/ars-token and icb-token declare no
\* account for a record.
EpochRecords(program) ==
    IF program = "ars-protocol/ars-token" THEN epoch_history ELSE <<>>

\* The record of the epoch that ends now.
EndedEpochRecord(s) ==
    [epoch_number |-> s.current_epoch,
     start_time |-> s.epoch_start,
     end_time |-> now,
     total_minted |-> s.epoch_minted,
     total_burned |-> s.epoch_burned,
     net_supply_change |-> s.epoch_minted - s.epoch_burned,
     final_supply |-> s.total_supply]

\* C33: every epoch rollover writes exactly one EpochRecord, for the epoch
\* that just ended, holding that epoch's number, its start time, the
\* rollover time as end, total_minted = epoch_minted, total_burned =
\* epoch_burned, net_supply_change = epoch_minted - epoch_burned and
\* final_supply = total supply at rollover; records exist for consecutive
\* epoch numbers with no gaps or duplicates, and an existing record is
\* never modified by any later operation.
C33_OneRecordPerRollover ==
    [][\A program \in SupplyPrograms :
         /\ IF SupplyState(program)'.current_epoch
                 # SupplyState(program).current_epoch
            THEN EpochRecords(program)'
                   = Append(EpochRecords(program),
                            EndedEpochRecord(SupplyState(program)))
            ELSE EpochRecords(program)' = EpochRecords(program)
         /\ \A i \in DOMAIN EpochRecords(program)' :
              EpochRecords(program)'[i].epoch_number = i - 1]_vars

(***************************************************************************)
(* Claims about reputation (checked under ReputationSpec).                 *)
(***************************************************************************)
\* The step is a successful slash.
SlashOkStep == last'.op = "slash_agent" /\ last'.err = Ok

\* C34: each successful slash lowers the agent's reputation by the fixed
\* penalty (50), saturating at a large negative sentinel floor (-1000): a
\* slash never raises an agent's reputation, and the reputation never goes
\* below the sentinel.
C34_SlashLowersReputationToFloor ==
    [][SlashOkStep
         => /\ AddressedAgentAfter.reputation_score
                 = (IF AddressedAgent.reputation_score
                         - SLASH_REPUTATION_PENALTY < REPUTATION_FLOOR
                    THEN REPUTATION_FLOOR
                    ELSE AddressedAgent.reputation_score
                           - SLASH_REPUTATION_PENALTY)
            /\ AddressedAgentAfter.reputation_score
                 <= AddressedAgent.reputation_score
            /\ AddressedAgentAfter.reputation_score >= REPUTATION_FLOOR]_vars

(***************************************************************************)
(* Claims about narrowing conversions (checked under ReserveSpec).         *)
(***************************************************************************)
\* The operations that compute a health ratio, and the exact ratio each is
\* to compute in this step (0 where it computes none).
ExactRatio(value, liabilities) ==
    IF liabilities = 0 \/ value < 0 THEN 0
    ELSE (value * 10000) \div liabilities

ComputedRatio ==
    IF last'.op = "vault_update_vhr"
    THEN ExactRatio(last'.arg.total_value_usd, last'.arg.liabilities_usd)
    ELSE IF last'.op = "vault_withdraw"
    THEN ExactRatio(vault.total_value_usd - last'.arg.amount,
                    vault.liabilities_usd)
    ELSE IF last'.op = "reserve_withdraw"
    THEN ExactRatio(reserve_vault.total_value_usd - last'.arg.amount,
                    reserve_vault.liabilities_usd)
    ELSE IF last'.op = "reserve_deposit"
    THEN ExactRatio(reserve_vault.total_value_usd + last'.arg.amount,
                    reserve_vault.liabilities_usd)
    ELSE 0

ArithmeticErrors == {"ArithmeticOverflow", "ArithmeticUnderflow"}

\* C35: no arithmetic in a state-changing operation silently wraps or
\* truncates: whenever the mathematically exact result (here: the ratio
\* narrowed to 16 bits) does not fit its type, the operation fails with an
\* arithmetic error instead of storing a wrapped value.
C35_NoSilentWrap ==
    [][ComputedRatio > U16_MAX
         => /\ last'.err \in ArithmeticErrors
            /\ UNCHANGED reserveVars]_vars

(***************************************************************************)
(* Claims about the stake behind a vote (checked under GovSpec).           *)
(***************************************************************************)
\* The stake the voter of this step has on record for the proposal already
\* (only icb-core keeps a record of a vote).
RecordedStake ==
    IF VoterHasRecord
    THEN icb_vote_records[<<last'.arg.id, last'.arg.agent>>].stake_amount
    ELSE 0

\* C36: for every agent and every proposal, the total raw stake that the
\* agent's accepted votes add to the proposal's tallies never exceeds the
\* agent's registered stake_amount: an agent cannot vote with more stake
\* than it has staked, nor increase its weight by voting on the same
\* proposal more than once.
C36_VoteWithinRegisteredStake ==
    [][(last'.op \in VoteOps /\ last'.err = Ok)
         => RecordedStake + VotedStake
              <= agent_registry[last'.arg.agent].stake_amount]_vars

\* The statuses a resolved proposal ends in.
TerminalStatuses == {"Passed", "Executed", "Rejected", "Failed"}

\* C37: every proposal can leave the Active status: for any tallies,
\* including a proposal that received no votes at all, an execute_proposal
\* call made at or after end_time succeeds and moves the proposal to a
\* terminal status, so no proposal remains Active forever once its window
\* has closed.
C37_ExecutionAfterWindowResolves ==
    [][(/\ last'.op = "execute_proposal"
        /\ ResolvedProposal.status = "Active"
        /\ now >= ResolvedProposal.end_time)
         => /\ last'.err = Ok
            /\ ResolvedProposalAfter.status \in TerminalStatuses]_vars

\* What holds of reputation and the breaker of ars-core whether or not a
\* slash can raise a score: a score is 0 at registration and changed by
\* slash_agent alone, no score is above 0, every attempt to trip the
\* breaker is turned down and the breaker is inactive.
BreakerOutOfReach ==
    /\ \A a \in Agents :
         /\ agent_registry'[a].reputation_score
              # agent_registry[a].reputation_score
              => /\ last'.op = "slash_agent" /\ last'.err = Ok
                 /\ last'.arg.agent = a
         /\ (~agent_registry[a].registered /\ agent_registry'[a].registered)
              => agent_registry'[a].reputation_score = 0
         /\ agent_registry'[a].reputation_score <= 0
    /\ last'.op = "trigger_circuit_breaker"
         => last'.err = "InsufficientReputation"
    /\ ~global_state'.circuit_breaker_active

C39_SupplyStaysZero ==
    [][/\ (last'.op \in {"mint_aru", "burn_aru"} /\ last'.arg.amount > 0)
            => /\ last'.err = CapError
               /\ mint_state' = mint_state
       /\ mint_state'.total_supply = 0
       /\ mint_state'.epoch_minted = 0
       /\ mint_state'.epoch_burned = 0]_vars

\* C39 witness: two epochs have been rolled over, and a mint of one token
\* under a cap of 25% has just been rejected with MintCapExceeded.
C39_Witness ==
    /\ last.op = "mint_aru" /\ last.err = "MintCapExceeded"
    /\ last.arg.amount = 1
    /\ mint_state.mint_cap_per_epoch_bps = 2500
    /\ mint_state.current_epoch = 2
    /\ Len(epoch_history) = 2

\* C40: in the ars-protocol reserve program, liabilities_usd is 0 after
\* initialize and no operation modifies it, so the stored ratio is the
\* maximum sentinel (65535) in every reachable state: withdraw never fails
\* with VHRTooLow and rebalance fails with RebalanceNotNeeded on every call,
\* for any sequence of deposits and withdrawals.
C40_RatioStaysSentinel ==
    [][/\ reserve_vault'.liabilities_usd = 0
       /\ reserve_vault'.vhr = U16_MAX
       /\ last'.op = "reserve_withdraw" => last'.err # "VHRTooLow"
       /\ last'.op = "reserve_rebalance"
            => last'.err = "RebalanceNotNeeded"]_vars

\* C40 witness: a withdrawal has just taken the last token out of the
\* vault; the stored ratio is still the sentinel.
C40_Witness ==
    /\ last.op = "reserve_withdraw" /\ last.err = Ok
    /\ last.arg.amount = 1
    /\ reserve_vault.total_value_usd = 0
    /\ reserve_token_balance = 0
    /\ reserve_vault.vhr = U16_MAX

=============================================================================
